---- MODULE Spec2Model ----
(***************************************************************************)
(* A model of the ChessRx analysis pipeline (src/src/lib/game-analyzer.ts):*)
(* the StockfishManager engine session, the UCI worker it talks to, and    *)
(* the analyzeGames orchestrator with its evaluation cache and classifier. *)
(*                                                                         *)
(* Evaluations are integers in centipawns: the code's `parseInt(cp) / 100` *)
(* pawns is the centipawn number itself, and every threshold of the code   *)
(* (1.0, 2.0, 3.0, 0.3, 0.5, 7, 99 pawns) is written in centipawns.        *)
(*                                                                         *)
(* Two specifications share the session and worker actions:                *)
(*   Spec         one analyzeGames run, as the application performs it;    *)
(*   SpecSession  a StockfishManager driven through its methods by a       *)
(*                caller that need not wait for a call to settle.          *)
(***************************************************************************)
EXTENDS Integers, Sequences, FiniteSets, TLC

VARIABLES
    games,              \* analyzeGames input: the list of GameToAnalyze
    options,            \* analyzeGames input: AnalyzerOptions
    pc,                 \* where the analyzeGames call stands
    gi,                 \* game loop index
    mi,                 \* ply loop index
    evalCache,          \* the evalCache Map of the current game: a set of PositionEval
    eb,                 \* the before-position evaluation held across the second await
    criticalPositions,  \* result list: mistakes
    bestMovesFound,     \* result list: reinforcements
    blunders,           \* result counter
    mistakes,           \* result counter
    progress,           \* the onProgress events reported, in order
    streamed,           \* the onPuzzleFound calls made, in order
    lastPly,            \* history: the ply classified last, with the values used
    worker,             \* StockfishManager.worker: "null" or "alive"
    terminated,         \* history: number of Worker.terminate() calls so far
    ready,              \* StockfishManager.ready
    listeners,          \* message listeners registered on the worker, in order
    timers,             \* ids of the armed setTimeout timers
    promises,           \* id -> the promise returned by initialize / analyzePosition
    inbox,              \* commands posted to the worker, not yet read by the engine
    outbox,             \* lines the engine emitted, not yet delivered as message events
    engine,             \* the UCI engine's own state
    posted,             \* history: the FENs submitted with go, in order
    lastDelivered,      \* history: the line delivered last, or NoLine
    sample,             \* SpecClassify: the arguments the classifiers are applied to
    verdict,            \* SpecClassify: the labels the classifiers returned
    puzzleBoard,        \* PuzzleBoard: the component's state and its armed retry timers
    useStockfish        \* useStockfish: the hook's state and its current sf.listen

runVars == <<pc, gi, mi, evalCache, eb, criticalPositions, bestMovesFound,
             blunders, mistakes, progress, streamed, lastPly>>
sessionVars == <<worker, terminated, ready, listeners, timers, promises>>
engineVars == <<inbox, outbox, engine>>
vars == <<games, options, runVars, sessionVars, engineVars, posted, lastDelivered,
          sample, verdict, puzzleBoard, useStockfish>>

(***************************************************************************)
(* Bounds of the model.                                                    *)
(***************************************************************************)
MaxGames == 2          \* games in one analyzeGames input
MaxPlies == 3          \* plies in one game
NumLines == 1          \* distinct move sequences the games are drawn from
MaxCalls == 4          \* engine calls explored in one analyzeGames run
MaxSessionCalls == 2   \* analyzePosition calls explored in SpecSession
MaxInfo == 1           \* score-bearing info lines the engine emits per search
MaxSearchInfo == 2     \* the same, in SpecSearch

(***************************************************************************)
(* Program constants (centipawns).                                         *)
(***************************************************************************)
DefaultDepth == 12
DefaultEvalThreshold == 100
MateScore == 9900
DecidedLimit == 700
BlunderDelta == 200
ReinforceDelta == -30
NonTrivialEval == 50

(***************************************************************************)
(* Positions and moves.  A FEN holds the move counters, so the position    *)
(* after k plies of a game differs from the position after any other       *)
(* number of plies; [ply, line] stands for the FEN string reached after    *)
(* `ply` plies of move sequence `line`.  Every game starts from the        *)
(* standard position (parsePgn replays from `new Chess()`).                *)
(***************************************************************************)
Lines == 1..NumLines
StartFen == [ply |-> 0, line |-> 0]
NoFen == [ply |-> -1, line |-> 0]
FenAt(line, k) == IF k = 0 THEN StartFen ELSE [ply |-> k, line |-> line]
Fens == {FenAt(l, k) : l \in Lines, k \in 0..MaxPlies}

\* `fen.split(' ')[1]`: the side to move of a FEN.
SideToMove(fen) == IF fen.ply % 2 = 0 THEN "w" ELSE "b"

\* Coordinate moves: the move a line plays at its ply k, another legal move of
\* that position, the empty string and the engine's `(none)`.
LineUci(line, k) == [name |-> "line", line |-> line, ply |-> k]
OtherUci(fen) == [name |-> "other", line |-> fen.line, ply |-> fen.ply]
NoMove == [name |-> "", line |-> 0, ply |-> 0]
NoneMove == [name |-> "(none)", line |-> 0, ply |-> 0]

\* The moves an engine may recommend in a position.
EngineMoves(fen) ==
    {LineUci(l, fen.ply) : l \in (IF fen = StartFen THEN Lines ELSE {fen.line})}
        \cup {OtherUci(fen)}

(***************************************************************************)
(* The UCI engine (the Worker running Stockfish).  It reads the posted     *)
(* commands in order; a search emits info lines and ends with a bestmove   *)
(* line, either by itself or when `stop` is read.  Scores are relative to  *)
(* the side to move of the searched position.                              *)
(***************************************************************************)
Score(kind, n) == [kind |-> kind, n |-> n]

Cmd(name) == [cmd |-> name, fen |-> NoFen]
PositionCmd(fen) == [cmd |-> "position", fen |-> fen]

NoLine == [type |-> "none", kind |-> "", n |-> 0, move |-> NoMove, fen |-> NoFen]
TextLine(t) == [type |-> t, kind |-> "", n |-> 0, move |-> NoMove, fen |-> NoFen]
InfoLine(score, pv, fen) ==
    [type |-> "info", kind |-> score.kind, n |-> score.n, move |-> pv, fen |-> fen]
BestmoveLine(move, fen) ==
    [type |-> "bestmove", kind |-> "", n |-> 0, move |-> move, fen |-> fen]

\* The score-bearing info lines a search of `fen` may emit.  A session driven
\* directly is explored with every pairing of the scores and moves below; an
\* analyzeGames run, which makes several searches, with three sample lines per
\* position (an advantage with the line's move, a deficit with another move, a
\* forced mate with the line's move).
EngineInfos(fen) ==
    IF pc = "search"
    THEN {InfoLine(sc, m, fen) :
            sc \in {Score("cp", 150), Score("cp", -35), Score("mate", 3), Score("mate", -2)},
            m \in EngineMoves(fen)}
    ELSE IF pc = "session"
    THEN {InfoLine(sc, m, fen) :
            sc \in {Score("cp", 150), Score("cp", -150), Score("cp", 0),
                    Score("mate", 1), Score("mate", -1)},
            m \in EngineMoves(fen)}
    ELSE {InfoLine(Score("cp", 150), m, fen) : m \in EngineMoves(fen) \ {OtherUci(fen)}}
         \cup {InfoLine(Score("cp", -150), OtherUci(fen), fen)}
         \cup {InfoLine(Score("mate", 1), m, fen) : m \in EngineMoves(fen) \ {OtherUci(fen)}}

IdleEngine == [searching |-> FALSE, pos |-> NoFen, fen |-> NoFen, infos |-> 0, pv |-> NoMove]

\* The bestmove line that ends the current search: the first move of the last
\* principal variation, or `(none)` when the search produced none.
EndOfSearch(e) == BestmoveLine(IF e.pv = NoMove THEN NoneMove ELSE e.pv, e.fen)

\* The engine reads one command.
EngineRead(e, c) ==
    CASE c.cmd = "position" -> [e EXCEPT !.pos = c.fen]
      [] c.cmd = "go" -> [e EXCEPT !.searching = TRUE, !.fen = e.pos, !.infos = 0, !.pv = NoMove]
      [] c.cmd = "stop" -> [e EXCEPT !.searching = FALSE, !.fen = NoFen, !.infos = 0, !.pv = NoMove]
      [] OTHER -> e

EngineReply(e, c) ==
    CASE c.cmd = "uci" -> <<TextLine("uciok")>>
      [] c.cmd = "isready" -> <<TextLine("readyok")>>
      [] c.cmd = "stop" /\ e.searching -> <<EndOfSearch(e)>>
      [] OTHER -> <<>>

EngineRecv ==
    /\ worker = "alive"
    /\ inbox # <<>>
    /\ engine' = EngineRead(engine, Head(inbox))
    /\ outbox' = outbox \o EngineReply(engine, Head(inbox))
    /\ inbox' = Tail(inbox)
    /\ UNCHANGED <<puzzleBoard, useStockfish, sample, verdict, games, options, runVars, sessionVars, posted, lastDelivered>>

EngineInfo ==
    /\ worker = "alive"
    /\ engine.searching
    /\ engine.infos < (IF pc = "search" THEN MaxSearchInfo ELSE MaxInfo)
    /\ \E line \in EngineInfos(engine.fen) :
          /\ outbox' = Append(outbox, line)
          /\ engine' = [engine EXCEPT !.infos = @ + 1, !.pv = line.move]
    /\ UNCHANGED <<puzzleBoard, useStockfish, sample, verdict, games, options, runVars, sessionVars, inbox, posted, lastDelivered>>

EngineBestmove ==
    /\ worker = "alive"
    /\ engine.searching
    /\ outbox' = Append(outbox, EndOfSearch(engine))
    /\ engine' = [engine EXCEPT !.searching = FALSE, !.fen = NoFen, !.infos = 0, !.pv = NoMove]
    /\ UNCHANGED <<puzzleBoard, useStockfish, sample, verdict, games, options, runVars, sessionVars, inbox, posted, lastDelivered>>

(***************************************************************************)
(* StockfishManager: the message listeners of initialize and of            *)
(* analyzePosition, their timers and their promises.                       *)
(***************************************************************************)
InitId == 0

NoEval == [fen |-> NoFen, evaluation |-> 0, bestMove |-> NoMove, depth |-> 0,
           whiteEval |-> 0, scoreOf |-> NoFen, moveOf |-> NoFen, endOf |-> NoFen,
           seen |-> <<>>]

\* The PositionEval a listener resolves with on a bestmove line.  whiteEval,
\* scoreOf, moveOf, endOf and seen are history fields: the score taken as
\* White would state it, the searches whose lines supplied the score, the best
\* move and the terminal bestmove line, and the score-bearing info lines the
\* handler received, in order.
PositionEval(h, line) ==
    [fen |-> h.fen, evaluation |-> h.evaluation, bestMove |-> h.bestMove,
     depth |-> DefaultDepth, whiteEval |-> h.whiteEval, scoreOf |-> h.scoreOf,
     moveOf |-> h.moveOf, endOf |-> line.fen, seen |-> h.seen]

InitListener ==
    [id |-> InitId, kind |-> "init", fen |-> NoFen, evaluation |-> 0, bestMove |-> NoMove,
     whiteEval |-> 0, scoreOf |-> NoFen, moveOf |-> NoFen, seen |-> <<>>]
AnalyzeListener(id, fen) ==
    [id |-> id, kind |-> "analyze", fen |-> fen, evaluation |-> 0, bestMove |-> NoMove,
     whiteEval |-> 0, scoreOf |-> NoFen, moveOf |-> NoFen, seen |-> <<>>]

\* A promise, with the position the call was made for (NoFen for initialize).
Pending(fen) == [status |-> "pending", value |-> NoEval, error |-> "", fen |-> fen]
Resolved(v, fen) == [status |-> "resolved", value |-> v, error |-> "", fen |-> fen]
Rejected(why, fen) == [status |-> "rejected", value |-> NoEval, error |-> why, fen |-> fen]

\* A promise settles once: resolve and reject on a settled promise do nothing.
Settle(p, outcome) == IF p.status = "pending" THEN outcome ELSE p

\* The score of an info line in centipawns, as the engine states it (relative
\* to the side to move): `score cp n` is n, `score mate n` saturates.
LineScore(line) ==
    IF line.kind = "mate" THEN (IF line.n > 0 THEN MateScore ELSE -MateScore) ELSE line.n

\* The same score as White would state it.
WhiteScore(line) ==
    IF SideToMove(line.fen) = "b" THEN -LineScore(line) ELSE LineScore(line)

\* The evaluation the analyzePosition handler stores for an info line.
StoredScore(line) == LineScore(line)

\* HandleLine, were a score kept once set (the first score of the search).
HandleLineKeepsFirst(h, line) ==
    CASE h.kind = "analyze" /\ line.type = "info" ->
            [h EXCEPT !.evaluation = IF h.seen = <<>> THEN StoredScore(line) ELSE @,
                      !.whiteEval = IF h.seen = <<>> THEN WhiteScore(line) ELSE @,
                      !.scoreOf = line.fen,
                      !.seen = Append(@, line),
                      !.bestMove = IF line.move # NoMove THEN line.move ELSE @,
                      !.moveOf = IF line.move # NoMove THEN line.fen ELSE @]
      [] h.kind = "analyze" /\ line.type = "bestmove" ->
            [h EXCEPT !.bestMove = IF line.move # NoneMove THEN line.move ELSE @,
                      !.moveOf = IF line.move # NoneMove THEN line.fen ELSE @]
      [] OTHER -> h

\* The analyzePosition handler body on one line (the state it keeps in its closure).
HandleLine(h, line) ==
    CASE h.kind = "analyze" /\ line.type = "info" ->
            [h EXCEPT !.evaluation = StoredScore(line), !.whiteEval = WhiteScore(line),
                      !.scoreOf = line.fen,
                      !.seen = Append(@, line),
                      !.bestMove = IF line.move # NoMove THEN line.move ELSE @,
                      !.moveOf = IF line.move # NoMove THEN line.fen ELSE @]
      [] h.kind = "analyze" /\ line.type = "bestmove" ->
            [h EXCEPT !.bestMove = IF line.move # NoneMove THEN line.move ELSE @,
                      !.moveOf = IF line.move # NoneMove THEN line.fen ELSE @]
      [] OTHER -> h

\* Completes, were the analysis listener to settle on the first line of a search.
CompletesOnAnyLine(h, line) ==
    \/ h.kind = "init" /\ line.type = "readyok"
    \/ h.kind = "analyze" /\ line.type \in {"info", "bestmove"}

\* Whether a listener settles its promise (and removes itself) on a line.
Completes(h, line) ==
    \/ h.kind = "init" /\ line.type = "readyok"
    \/ h.kind = "analyze" /\ line.type = "bestmove"

\* A message event: the line is handed to every registered listener in order.
Deliver ==
    /\ worker = "alive"
    /\ outbox # <<>>
    /\ LET line == Head(outbox)
           handled == [i \in DOMAIN listeners |-> HandleLine(listeners[i], line)]
           done == {i \in DOMAIN listeners : Completes(listeners[i], line)}
           doneIds == {listeners[i].id : i \in done}
       IN  /\ listeners' = SelectSeq(handled, LAMBDA h : ~Completes(h, line))
           /\ timers' = timers \ doneIds
           /\ ready' = (ready \/ \E i \in done : listeners[i].kind = "init")
           /\ promises' = [id \in DOMAIN promises |->
                  IF \E i \in done : listeners[i].id = id
                  THEN LET i == CHOOSE j \in done : listeners[j].id = id
                       IN  Settle(promises[id], Resolved(
                               IF listeners[i].kind = "init" THEN NoEval
                               ELSE PositionEval(handled[i], line), promises[id].fen))
                  ELSE promises[id]]
           /\ lastDelivered' = line
    /\ outbox' = Tail(outbox)
    /\ UNCHANGED <<puzzleBoard, useStockfish, sample, verdict, games, options, runVars, worker, terminated, inbox, engine, posted>>

\* TimeoutOutcome, were the timeout to resolve with the values gathered so far
\* (the initial 0 and empty best move) in place of rejecting.
TimeoutDefault(id, fen) ==
    IF id = InitId THEN Rejected("Stockfish init timeout", fen)
    ELSE Resolved([NoEval EXCEPT !.fen = fen, !.depth = DefaultDepth], fen)

\* What a timeout callback does to its promise: it rejects.
TimeoutOutcome(id, fen) ==
    Rejected(IF id = InitId THEN "Stockfish init timeout" ELSE "Analysis timeout", fen)

\* A setTimeout callback of initialize (which leaves its listener registered)
\* or of analyzePosition (which removes its listener first).
TimerFires(id) ==
    /\ id \in timers
    /\ timers' = timers \ {id}
    /\ listeners' = IF id = InitId THEN listeners
                    ELSE SelectSeq(listeners, LAMBDA h : h.id # id)
    /\ promises' = [promises EXCEPT ![id] = Settle(@, TimeoutOutcome(id, @.fen))]
    /\ UNCHANGED <<puzzleBoard, useStockfish, sample, verdict, games, options, runVars, worker, terminated, ready, engineVars,
                   posted, lastDelivered>>

\* initialize(), up to its await: a new Worker, the listener, the timer, four commands.
initialize ==
    /\ worker' = "alive"
    /\ engine' = IdleEngine
    /\ outbox' = <<>>
    /\ inbox' = <<Cmd("uci"), Cmd("setoption"), Cmd("setoption"), Cmd("isready")>>
    /\ listeners' = <<InitListener>>
    /\ timers' = timers \cup {InitId}
    /\ promises' = (InitId :> Pending(NoFen)) @@ promises

\* analyzePosition, were the test of worker and ready left out.
analyzePositionUnguarded(id, fen, kept) ==
    /\ promises' = (id :> Pending(fen)) @@ kept
    /\ timers' = timers \cup {id}
    /\ listeners' = Append(listeners, AnalyzeListener(id, fen))
    /\ inbox' = inbox \o <<Cmd("stop"), Cmd("ucinewgame"), PositionCmd(fen), Cmd("go")>>
    /\ posted' = Append(posted, fen)

\* analyzePosition(fen, depth), the promise executor.
\* `kept` are the promises still referenced when the call is made.
analyzePosition(id, fen, kept) ==
    IF worker = "null" \/ ~ready
    THEN /\ promises' = (id :> Rejected("Stockfish not initialized", fen)) @@ kept
         /\ UNCHANGED <<listeners, timers, inbox, posted>>
    ELSE /\ promises' = (id :> Pending(fen)) @@ kept
         /\ timers' = timers \cup {id}
         /\ listeners' = Append(listeners, AnalyzeListener(id, fen))
         /\ inbox' = inbox \o <<Cmd("stop"), Cmd("ucinewgame"), PositionCmd(fen), Cmd("go")>>
         /\ posted' = Append(posted, fen)

\* terminate(): the worker is killed with whatever it held; timers stay armed.
terminate ==
    /\ terminated' = IF worker = "alive" THEN terminated + 1 ELSE terminated
    /\ worker' = "null"
    /\ ready' = FALSE
    /\ listeners' = <<>>
    /\ inbox' = <<>>
    /\ outbox' = <<>>
    /\ engine' = IdleEngine

(***************************************************************************)
(* SpecSession: a StockfishManager used through its three methods.  The    *)
(* caller may call analyzePosition while an earlier call is in flight.     *)
(***************************************************************************)
DefaultOptions ==
    [evalThreshold |-> DefaultEvalThreshold, skipOpeningMoves |-> 0,
     onProgress |-> TRUE, onPuzzleFound |-> TRUE]

NoPly == [gi |-> -1, mi |-> -1, side |-> "", evalBefore |-> 0, evalAfter |-> 0,
          evalDelta |-> 0, verdict |-> ""]

\* clockAfter of a ply whose comment holds no %clk tag (undefined in the source).
NoClock == -1
\* No arguments given to the classifiers yet, and no label returned yet.
NoLabel == "none"
NoSample == [evalDelta |-> 0, clockTime |-> NoClock, theme |-> NoLabel]
NoVerdict == [difficulty |-> NoLabel, pattern |-> NoLabel]
\* No PuzzleBoard is mounted, and no useStockfish hook.
NoBoard == [status |-> NoLabel]
NoHook == [isReady |-> FALSE]

SessionFens == {FenAt(l, k) : l \in Lines, k \in 0..1}
CallIds == DOMAIN promises \ {InitId}

InitSession ==
    /\ games = <<>>
    /\ options = DefaultOptions
    /\ pc = "session"
    /\ gi = 0
    /\ mi = 0
    /\ evalCache = {}
    /\ eb = NoEval
    /\ criticalPositions = <<>>
    /\ bestMovesFound = <<>>
    /\ blunders = 0
    /\ mistakes = 0
    /\ progress = <<>>
    /\ streamed = <<>>
    /\ lastPly = NoPly
    /\ worker = "null"
    /\ terminated = 0
    /\ ready = FALSE
    /\ listeners = <<>>
    /\ timers = {}
    /\ promises = <<>>
    /\ inbox = <<>>
    /\ outbox = <<>>
    /\ engine = IdleEngine
    /\ posted = <<>>
    /\ lastDelivered = NoLine
    /\ sample = NoSample
    /\ verdict = NoVerdict
    /\ puzzleBoard = NoBoard
    /\ useStockfish = NoHook

SessionInitialize ==
    /\ pc = "session"
    /\ InitId \notin DOMAIN promises
    /\ initialize
    /\ UNCHANGED <<puzzleBoard, useStockfish, sample, verdict, games, options, runVars, terminated, ready, posted, lastDelivered>>

SessionAnalyze ==
    /\ pc = "session"
    /\ Cardinality(CallIds) < MaxSessionCalls
    /\ \E fen \in SessionFens :
          analyzePosition(Cardinality(CallIds) + 1, fen, promises)
    /\ UNCHANGED <<puzzleBoard, useStockfish, sample, verdict, games, options, runVars, worker, terminated, ready, outbox, engine,
                   lastDelivered>>

SessionTerminate ==
    /\ pc = "session"
    /\ worker = "alive"
    /\ terminate
    /\ UNCHANGED <<puzzleBoard, useStockfish, sample, verdict, games, options, runVars, timers, promises, posted, lastDelivered>>

NextSession ==
    \/ SessionInitialize
    \/ SessionAnalyze
    \/ SessionTerminate
    \/ EngineRecv
    \/ EngineInfo
    \/ EngineBestmove
    \/ Deliver
    \/ \E id \in timers : TimerFires(id)

SpecSession == InitSession /\ [][NextSession]_vars

(***************************************************************************)
(* SpecSearch: one analyzePosition call on an initialized session, with a  *)
(* search that emits up to MaxSearchInfo score-bearing info lines.         *)
(***************************************************************************)
InitSearch ==
    /\ games = <<>>
    /\ options = DefaultOptions
    /\ pc = "search"
    /\ gi = 0
    /\ mi = 0
    /\ evalCache = {}
    /\ eb = NoEval
    /\ criticalPositions = <<>>
    /\ bestMovesFound = <<>>
    /\ blunders = 0
    /\ mistakes = 0
    /\ progress = <<>>
    /\ streamed = <<>>
    /\ lastPly = NoPly
    /\ worker = "null"
    /\ terminated = 0
    /\ ready = FALSE
    /\ listeners = <<>>
    /\ timers = {}
    /\ promises = <<>>
    /\ inbox = <<>>
    /\ outbox = <<>>
    /\ engine = IdleEngine
    /\ posted = <<>>
    /\ lastDelivered = NoLine
    /\ sample = NoSample
    /\ verdict = NoVerdict
    /\ puzzleBoard = NoBoard
    /\ useStockfish = NoHook

SearchInitialize ==
    /\ pc = "search"
    /\ InitId \notin DOMAIN promises
    /\ initialize
    /\ UNCHANGED <<puzzleBoard, useStockfish, sample, verdict, games, options, runVars, terminated, ready, posted, lastDelivered>>

\* The one call, made once initialize() has resolved.
SearchAnalyze ==
    /\ pc = "search"
    /\ InitId \in DOMAIN promises
    /\ promises[InitId].status = "resolved"
    /\ CallIds = {}
    /\ \E fen \in SessionFens : analyzePosition(1, fen, promises)
    /\ UNCHANGED <<puzzleBoard, useStockfish, sample, verdict, games, options, runVars, worker, terminated, ready, outbox, engine,
                   lastDelivered>>

NextSearch ==
    \/ SearchInitialize
    \/ SearchAnalyze
    \/ EngineRecv
    \/ EngineInfo
    \/ EngineBestmove
    \/ Deliver
    \/ \E id \in timers : TimerFires(id)

SpecSearch == InitSearch /\ [][NextSearch]_vars

(***************************************************************************)
(* The games analyzeGames is given.  A game follows one of the move        *)
(* sequences for n plies; its plies are what parsePgn builds.              *)
(***************************************************************************)
Subject == "Magnus"
ToLower(name) == IF name = "Magnus" THEN "magnus" ELSE name

GamePlayers == {[white |-> "magnus", black |-> "hikaru"],
                [white |-> "hikaru", black |-> "magnus"]}
GameDates == {"2026.02.20"}

\* formatPgnDate on the dates of GameDates.
formatPgnDate(d) == IF d = "2026.02.20" THEN "Feb 20, 2026" ELSE d

GameCatalog ==
    {[white |-> pl.white, black |-> pl.black, username |-> Subject, date |-> d,
      line |-> l, n |-> n, repeats |-> FALSE] :
        pl \in GamePlayers, d \in GameDates, l \in Lines, n \in 1..MaxPlies}

\* ParsedGame values built by hand, as a test of analyzeGames builds them: the
\* same two FENs alternate, so the before-position of ply i + 2 is that of ply i.
\* parsePgn yields no such game (a FEN holds the move counters).
RepeatingGames ==
    {[white |-> pl.white, black |-> pl.black, username |-> Subject, date |-> d,
      line |-> l, n |-> MaxPlies, repeats |-> TRUE] :
        pl \in GamePlayers, d \in GameDates, l \in Lines}

GameLists == UNION {[1..k -> GameCatalog] : k \in 0..MaxGames}

EvalThresholds == {DefaultEvalThreshold, -150}
SkipOpeningChoices == {0, 1}


\* PositionIndex, were every game to alternate between two positions.
PositionIndexAlternating(g, i) == i % 2

\* The index of the position from which ply i of a game is played.
PositionIndex(g, i) == IF g.repeats THEN i % 2 ELSE i

\* parsePgn: ply i (0-based) of a game.
ParsedMove(g, i) ==
    [uci |-> LineUci(g.line, PositionIndex(g, i)),
     fen |-> FenAt(g.line, PositionIndex(g, i + 1)),
     fenBefore |-> FenAt(g.line, PositionIndex(g, i)),
     moveNumber |-> (i \div 2) + 1,
     side |-> IF i % 2 = 0 THEN "white" ELSE "black",
     clockAfter |-> NoClock]

(***************************************************************************)
(* Classification helpers.                                                 *)
(***************************************************************************)
Abs(x) == IF x < 0 THEN -x ELSE x

\* evalDeltaForSide, were the side ignored.
evalDeltaIgnoringSide(evalBefore, evalAfter, side) == evalBefore - evalAfter

evalDeltaForSide(evalBefore, evalAfter, side) ==
    IF side = "white" THEN evalBefore - evalAfter ELSE evalAfter - evalBefore

\* classifyDifficulty, were an absent clock compared like a number.
classifyDifficultyAnyClock(evalDelta, clockTime) ==
    IF evalDelta >= 300 THEN "easy"
    ELSE IF evalDelta >= 200 \/ clockTime < 10 THEN "medium"
    ELSE "hard"

classifyDifficulty(evalDelta, clockTime) ==
    IF evalDelta >= 300 THEN "easy"
    ELSE IF evalDelta >= 200 \/ (clockTime # NoClock /\ clockTime < 10) THEN "medium"
    ELSE "hard"

\* classifyPattern, were the evaluation swing tested before the clock.
classifyPatternDeltaFirst(evalDelta, clockTime) ==
    IF evalDelta >= 300 THEN "Hanging Piece"
    ELSE IF evalDelta >= 200 THEN "Missed Tactic"
    ELSE IF clockTime # NoClock /\ clockTime < 30 THEN "Time Pressure Blunder"
    ELSE "Positional Error"

classifyPattern(evalDelta, clockTime) ==
    IF clockTime # NoClock /\ clockTime < 30 THEN "Time Pressure Blunder"
    ELSE IF evalDelta >= 300 THEN "Hanging Piece"
    ELSE IF evalDelta >= 200 THEN "Missed Tactic"
    ELSE "Positional Error"

\* The themes detectTactics can return: 'unknown' when no piece stands on the
\* best move's origin square, 'tactic' when the best move cannot be replayed,
\* 'checkmate', the first theme pushed by the capture, fork, check and
\* promotion rules, and 'positional' when no rule produced a clause.
DetectorThemes ==
    {"unknown", "tactic", "checkmate", "winning capture", "hanging piece", "capture",
     "fork", "check and win", "check", "promotion", "positional"}

\* The `pattern` field of a CriticalPosition: the detector's theme unless it
\* is 'unknown' or 'positional', else the classifyPattern label.
PatternOf(theme, evalDelta, clockTime) ==
    IF theme # "unknown" /\ theme # "positional" THEN theme
    ELSE classifyPattern(evalDelta, clockTime)

(***************************************************************************)
(* SpecClassify: classifyDifficulty and the pattern selection as pure      *)
(* functions, applied to arguments drawn around their thresholds.          *)
(***************************************************************************)
SampleDeltas == {-50, 99, 100, 150, 199, 200, 250, 299, 300, 450}
SampleClocks == {NoClock, 0, 9, 10, 29, 30, 600}

InitClassify ==
    /\ games = <<>>
    /\ options = DefaultOptions
    /\ pc = "classify"
    /\ gi = 0
    /\ mi = 0
    /\ evalCache = {}
    /\ eb = NoEval
    /\ criticalPositions = <<>>
    /\ bestMovesFound = <<>>
    /\ blunders = 0
    /\ mistakes = 0
    /\ progress = <<>>
    /\ streamed = <<>>
    /\ lastPly = NoPly
    /\ worker = "null"
    /\ terminated = 0
    /\ ready = FALSE
    /\ listeners = <<>>
    /\ timers = {}
    /\ promises = <<>>
    /\ inbox = <<>>
    /\ outbox = <<>>
    /\ engine = IdleEngine
    /\ posted = <<>>
    /\ lastDelivered = NoLine
    /\ sample \in [evalDelta : SampleDeltas, clockTime : SampleClocks, theme : DetectorThemes]
    /\ verdict = NoVerdict
    /\ puzzleBoard = NoBoard
    /\ useStockfish = NoHook

\* const difficulty = classifyDifficulty(delta, move.clockAfter)
ClassifyDifficulty ==
    /\ pc = "classify"
    /\ verdict.difficulty = NoLabel
    /\ verdict' = [verdict EXCEPT
                      !.difficulty = classifyDifficulty(sample.evalDelta, sample.clockTime)]
    /\ UNCHANGED <<puzzleBoard, useStockfish, sample, games, options, runVars, sessionVars, engineVars, posted,
                   lastDelivered>>

\* pattern: tactics.theme, or the classifyPattern label
SelectPattern ==
    /\ pc = "classify"
    /\ verdict.pattern = NoLabel
    /\ verdict' = [verdict EXCEPT
                      !.pattern = PatternOf(sample.theme, sample.evalDelta, sample.clockTime)]
    /\ UNCHANGED <<puzzleBoard, useStockfish, sample, games, options, runVars, sessionVars, engineVars, posted,
                   lastDelivered>>

NextClassify == ClassifyDifficulty \/ SelectPattern

SpecClassify == InitClassify /\ [][NextClassify]_vars

(***************************************************************************)
(* chess-utils: parseUciMove and toUci.  A string is the sequence of its   *)
(* characters.                                                             *)
(***************************************************************************)
Undefined == "undefined"

\* s.slice(a, b) with 0 <= a <= b: the characters a .. b - 1, as far as s goes.
Slice(s, a, b) == SubSeq(s, a + 1, IF b < Len(s) THEN b ELSE Len(s))

\* parseUciMove, were the promotion letter not read.
parseUciMoveFourChars(uci) ==
    [from |-> Slice(uci, 0, 2), to |-> Slice(uci, 2, 4), promotion |-> Undefined]

\* `promotion: uci[4] || undefined`
parseUciMove(uci) ==
    [from |-> Slice(uci, 0, 2),
     to |-> Slice(uci, 2, 4),
     promotion |-> IF Len(uci) >= 5 THEN uci[5] ELSE Undefined]

\* `${from}${to}${promotion ?? ''}`
toUci(from, to, promotion) ==
    from \o to \o (IF promotion = Undefined THEN <<>> ELSE <<promotion>>)

(***************************************************************************)
(* SpecUci: the two conversions as pure functions, applied in both orders. *)
(***************************************************************************)
FileChars == {"a", "b", "c", "d", "e", "f", "g", "h"}
RankChars == {"1", "2", "7", "8"}
SquareNames == {<<f, r>> : f \in FileChars, r \in RankChars}
PromotionChoices == {Undefined, "q", "r", "b", "n"}
CoordinateMoves ==
    {f \o t \o pr : f \in SquareNames, t \in SquareNames,
                    pr \in {<<>>, <<"q">>, <<"r">>, <<"b">>, <<"n">>}}

NoResult == [kind |-> NoLabel]

InitUci ==
    /\ games = <<>>
    /\ options = DefaultOptions
    /\ pc = "uci"
    /\ gi = 0
    /\ mi = 0
    /\ evalCache = {}
    /\ eb = NoEval
    /\ criticalPositions = <<>>
    /\ bestMovesFound = <<>>
    /\ blunders = 0
    /\ mistakes = 0
    /\ progress = <<>>
    /\ streamed = <<>>
    /\ lastPly = NoPly
    /\ worker = "null"
    /\ terminated = 0
    /\ ready = FALSE
    /\ listeners = <<>>
    /\ timers = {}
    /\ promises = <<>>
    /\ inbox = <<>>
    /\ outbox = <<>>
    /\ engine = IdleEngine
    /\ posted = <<>>
    /\ lastDelivered = NoLine
    /\ \/ \E f \in SquareNames, t \in SquareNames, pr \in PromotionChoices :
              sample = [kind |-> "move", from |-> f, to |-> t, promotion |-> pr]
       \/ \E u \in CoordinateMoves : sample = [kind |-> "text", uci |-> u]
    /\ verdict = NoResult
    /\ puzzleBoard = NoBoard
    /\ useStockfish = NoHook

\* parseUciMove(toUci(from, to, promotion))
EncodeDecode ==
    /\ pc = "uci"
    /\ sample.kind = "move"
    /\ verdict = NoResult
    /\ verdict' = [kind |-> "move"]
                     @@ parseUciMove(toUci(sample.from, sample.to, sample.promotion))
    /\ UNCHANGED <<puzzleBoard, useStockfish, sample, games, options, runVars, sessionVars, engineVars, posted,
                   lastDelivered>>

\* toUci(parsed.from, parsed.to, parsed.promotion) with parsed = parseUciMove(u)
DecodeEncode ==
    /\ pc = "uci"
    /\ sample.kind = "text"
    /\ verdict = NoResult
    /\ LET parsed == parseUciMove(sample.uci)
       IN  verdict' = [kind |-> "text",
                       uci |-> toUci(parsed.from, parsed.to, parsed.promotion)]
    /\ UNCHANGED <<puzzleBoard, useStockfish, sample, games, options, runVars, sessionVars, engineVars, posted,
                   lastDelivered>>

NextUci == EncodeDecode \/ DecodeEncode

SpecUci == InitUci /\ [][NextUci]_vars

(***************************************************************************)
(* The chess.js calls of tactics-detector.ts.  A position is a board (a    *)
(* function from the squares 0..63, a1 = 0, h8 = 63, to the piece letter   *)
(* of the FEN or "") and the side to move.  Castling and en passant are    *)
(* left out: neither captures on the square it moves to, and the detector  *)
(* asks only for checks and for moves that land on an occupied square.     *)
(***************************************************************************)
NoSquare == -1
Empty == ""
WhitePieces == {"P", "N", "B", "R", "Q", "K"}
BlackPieces == {"p", "n", "b", "r", "q", "k"}
Squares == 0..63
Files == [a |-> 0, b |-> 1, c |-> 2, d |-> 3, e |-> 4, f |-> 5, g |-> 6, h |-> 7]
SquareAt(file, rank) == (rank - 1) * 8 + Files[file]
FileOf(s) == s % 8
RankOf(s) == s \div 8

ColorOf(p) == IF p \in WhitePieces THEN "w" ELSE "b"
Other(c) == IF c = "w" THEN "b" ELSE "w"
TypeOf(p) ==
    CASE p \in {"P", "p"} -> "p"
      [] p \in {"N", "n"} -> "n"
      [] p \in {"B", "b"} -> "b"
      [] p \in {"R", "r"} -> "r"
      [] p \in {"Q", "q"} -> "q"
      [] p \in {"K", "k"} -> "k"
PieceOf(type, c) ==
    IF c = "b" THEN type
    ELSE CASE type = "p" -> "P" [] type = "n" -> "N" [] type = "b" -> "B"
           [] type = "r" -> "R" [] type = "q" -> "Q" [] type = "k" -> "K"

PIECE_NAMES == [p |-> "pawn", n |-> "knight", b |-> "bishop", r |-> "rook", q |-> "queen",
                k |-> "king"]
PIECE_VALUES == [p |-> 1, n |-> 3, b |-> 3, r |-> 5, q |-> 9, k |-> 0]
pieceName(type) == PIECE_NAMES[type]

\* A FEN board field, rank 8 first, each rank a sequence of its characters.
FenDigits == {"1", "2", "3", "4", "5", "6", "7", "8"}
DigitValue(t) ==
    CASE t = "1" -> 1 [] t = "2" -> 2 [] t = "3" -> 3 [] t = "4" -> 4
      [] t = "5" -> 5 [] t = "6" -> 6 [] t = "7" -> 7 [] t = "8" -> 8

RECURSIVE ExpandRank(_)
ExpandRank(chars) ==
    IF chars = <<>> THEN <<>>
    ELSE IF Head(chars) \in FenDigits
         THEN [i \in 1..DigitValue(Head(chars)) |-> Empty] \o ExpandRank(Tail(chars))
         ELSE <<Head(chars)>> \o ExpandRank(Tail(chars))

\* new Chess(fen): the board and the side to move of a FEN.
Chess(ranks, turn) ==
    LET rows == [r \in 1..8 |-> ExpandRank(ranks[r])]
    IN  [board |-> [s \in Squares |-> rows[8 - RankOf(s)][FileOf(s) + 1]], turn |-> turn]

KnightSteps == {<<1, 2>>, <<2, 1>>, <<2, -1>>, <<1, -2>>, <<-1, -2>>, <<-2, -1>>, <<-2, 1>>,
                <<-1, 2>>}
BishopDirs == {<<1, 1>>, <<1, -1>>, <<-1, 1>>, <<-1, -1>>}
RookDirs == {<<1, 0>>, <<-1, 0>>, <<0, 1>>, <<0, -1>>}
QueenDirs == BishopDirs \cup RookDirs

OnBoard(f, r) == f \in 0..7 /\ r \in 0..7

\* The squares a piece on s reaches along the directions, up to n steps, with
\* every square passed over empty.
Reach(board, s, dirs, n) ==
    {(RankOf(s) + x[2] * x[1][2]) * 8 + FileOf(s) + x[2] * x[1][1] :
        x \in {y \in dirs \X (1..n) :
                 /\ OnBoard(FileOf(s) + y[2] * y[1][1], RankOf(s) + y[2] * y[1][2])
                 /\ \A j \in 1..(y[2] - 1) :
                        board[(RankOf(s) + j * y[1][2]) * 8 + FileOf(s) + j * y[1][1]] = Empty}}

Forward(c) == IF c = "w" THEN 1 ELSE -1

\* The squares the piece on s attacks.
Attacks(board, s) ==
    LET p == board[s]
        t == TypeOf(p)
    IN  CASE t = "n" -> Reach(board, s, KnightSteps, 1)
          [] t = "k" -> Reach(board, s, QueenDirs, 1)
          [] t = "b" -> Reach(board, s, BishopDirs, 7)
          [] t = "r" -> Reach(board, s, RookDirs, 7)
          [] t = "q" -> Reach(board, s, QueenDirs, 7)
          [] t = "p" -> Reach(board, s, {<<1, Forward(ColorOf(p))>>, <<-1, Forward(ColorOf(p))>>}, 1)

\* The squares a pawn on s may advance to.
PawnPushes(board, s) ==
    LET c == ColorOf(board[s])
        home == IF c = "w" THEN 1 ELSE 6
    IN  Reach(board, s, {<<0, Forward(c)>>}, IF RankOf(s) = home THEN 2 ELSE 1)

\* The squares the piece on s may move to, the own king's safety aside: never
\* a square that holds a piece of its own colour.
PseudoMoves(board, s) ==
    LET p == board[s]
    IN  IF TypeOf(p) = "p"
        THEN {t \in PawnPushes(board, s) : board[t] = Empty}
             \cup {t \in Attacks(board, s) :
                     board[t] # Empty /\ ColorOf(board[t]) # ColorOf(p)}
        ELSE {t \in Attacks(board, s) : board[t] = Empty \/ ColorOf(board[t]) # ColorOf(p)}

PiecesOf(board, c) == {s \in Squares : board[s] # Empty /\ ColorOf(board[s]) = c}

\* Whether the king of colour c is attacked.
KingAttacked(board, c) ==
    \E s \in PiecesOf(board, Other(c)) :
        \E k \in Attacks(board, s) : board[k] = PieceOf("k", c)

LastRank(c) == IF c = "w" THEN 7 ELSE 0

\* The board after the piece on `from` moved to `to`.
Moved(board, from, to, promotion) ==
    [board EXCEPT ![from] = Empty,
                  ![to] = IF TypeOf(board[from]) = "p" /\ RankOf(to) = LastRank(ColorOf(board[from]))
                          THEN PieceOf(promotion, ColorOf(board[from]))
                          ELSE board[from]]

\* game.moves({ square, verbose: true }), as the set of the squares moved to:
\* the legal moves of the piece on the square, none when the piece is not of
\* the side to move.
moves(game, square) ==
    IF game.board[square] = Empty \/ ColorOf(game.board[square]) # game.turn THEN {}
    ELSE {t \in PseudoMoves(game.board, square) :
            ~KingAttacked(Moved(game.board, square, t, "q"), game.turn)}

\* game.inCheck(): the side to move is in check.
inCheck(game) == KingAttacked(game.board, game.turn)

\* game.isCheckmate(): in check with no legal move.
isCheckmate(game) ==
    inCheck(game) /\ \A s \in PiecesOf(game.board, game.turn) : moves(game, s) = {}

Promotions == {"q", "r", "b", "n"}
IsPromotion(game, from, to) ==
    TypeOf(game.board[from]) = "p" /\ RankOf(to) = LastRank(game.turn)

\* Whether game.move({ from, to, promotion }) finds the move (it throws
\* otherwise): a generated move of the same squares, and of the same promotion
\* when the generated move is a promotion.
CanMove(game, from, to, promotion) ==
    /\ from \in Squares
    /\ to \in Squares
    /\ to \in moves(game, from)
    /\ IsPromotion(game, from, to) => promotion \in Promotions

\* The game after game.move({ from, to, promotion }).
AfterMove(game, from, to, promotion) ==
    [board |-> Moved(game.board, from, to, promotion), turn |-> Other(game.turn)]

(***************************************************************************)
(* tactics-detector.ts.                                                    *)
(***************************************************************************)
\* A UCI move as parseUciMove returns it: the squares and the promotion
\* letter ("" for none); NoSquare where the string names no square.
EmptyUci == [from |-> NoSquare, to |-> NoSquare, promotion |-> ""]
Uci(from, to, promotion) == [from |-> from, to |-> to, promotion |-> promotion]

\* getAttackedPieces: the pieces of opponentColor on the squares that the
\* moves of the piece on `square` land on.
getAttackedPieces(game, square, opponentColor) ==
    {[square |-> t, type |-> TypeOf(game.board[t])] :
        t \in {u \in moves(game, square) :
                 game.board[u] # Empty /\ ColorOf(game.board[u]) = opponentColor}}

\* isUndefended: no other piece of `color` has a move onto `square`, in the
\* same position with `color` to move.
isUndefended(game, square, color) ==
    IF game.board[square] = Empty THEN TRUE
    ELSE LET testGame == [board |-> game.board, turn |-> color]
         IN  \A s \in PiecesOf(testGame.board, color) \ {square} :
                 square \notin moves(testGame, s)

Valuable(a) == PIECE_VALUES[a.type] >= 3 \/ a.type = "k"

\* detectTactics, were the mate looked for after the other motifs.
detectTacticsMateLast(game, bestMoveUci) ==
    LET from == bestMoveUci.from
        to == bestMoveUci.to
        promotion == bestMoveUci.promotion
        movingPiece == IF from \in Squares THEN game.board[from] ELSE Empty
    IN  IF movingPiece = Empty THEN [theme |-> "unknown", pieces |-> {}]
        ELSE
        LET opponentColor == Other(game.turn)
            movingPieceName == pieceName(TypeOf(movingPiece))
            targetPiece == game.board[to]
            isCapture == targetPiece # Empty /\ ColorOf(targetPiece) = opponentColor
        IN  IF ~CanMove(game, from, to, promotion)
            THEN [theme |-> "tactic", pieces |-> {movingPieceName}]
            ELSE
            LET afterGame == AfterMove(game, from, to, promotion)
                captureThemes ==
                    IF ~isCapture THEN <<>>
                    ELSE IF PIECE_VALUES[TypeOf(targetPiece)] > PIECE_VALUES[TypeOf(movingPiece)]
                         THEN <<"winning capture">>
                    ELSE IF isUndefended(game, to, opponentColor) THEN <<"hanging piece">>
                    ELSE <<"capture">>
            IN  IF captureThemes # <<>>
                THEN [theme |-> captureThemes[1],
                      pieces |-> {movingPieceName, pieceName(TypeOf(targetPiece))}]
                ELSE IF isCheckmate(afterGame)
                THEN [theme |-> "checkmate", pieces |-> {movingPieceName, "king"}]
                ELSE [theme |-> "positional", pieces |-> {movingPieceName}]

\* detectTactics(fen, bestMoveUci): the theme and the pieces involved (the
\* explanation text is left out).
detectTactics(game, bestMoveUci) ==
    LET from == bestMoveUci.from
        to == bestMoveUci.to
        promotion == bestMoveUci.promotion
        movingPiece == IF from \in Squares THEN game.board[from] ELSE Empty
    IN  IF movingPiece = Empty THEN [theme |-> "unknown", pieces |-> {}]
        ELSE
        LET opponentColor == Other(game.turn)
            movingPieceName == pieceName(TypeOf(movingPiece))
            targetPiece == game.board[to]
            isCapture == targetPiece # Empty /\ ColorOf(targetPiece) = opponentColor
        IN  IF ~CanMove(game, from, to, promotion)
            THEN [theme |-> "tactic", pieces |-> {movingPieceName}]
            ELSE
            LET afterGame == AfterMove(game, from, to, promotion)
            IN  IF isCheckmate(afterGame)
                THEN [theme |-> "checkmate", pieces |-> {movingPieceName, "king"}]
                ELSE
                LET givesCheck == inCheck(afterGame)
                    captureThemes ==
                        IF ~isCapture THEN <<>>
                        ELSE IF PIECE_VALUES[TypeOf(targetPiece)]
                                    > PIECE_VALUES[TypeOf(movingPiece)]
                             THEN <<"winning capture">>
                        ELSE IF isUndefended(game, to, opponentColor)
                             THEN <<"hanging piece">>
                        ELSE <<"capture">>
                    capturePieces ==
                        IF isCapture THEN {pieceName(TypeOf(targetPiece))} ELSE {}
                    attackedAfterMove == getAttackedPieces(afterGame, to, opponentColor)
                    valuableAttacked == {a \in attackedAfterMove : Valuable(a)}
                    isFork == Cardinality(valuableAttacked) >= 2
                    forkThemes == IF isFork THEN <<"fork">> ELSE <<>>
                    forkPieces ==
                        IF isFork THEN {pieceName(a.type) : a \in valuableAttacked} ELSE {}
                    nonKingAttacked ==
                        {a \in attackedAfterMove : a.type # "k" /\ PIECE_VALUES[a.type] >= 3}
                    isCheckAndWin == givesCheck /\ ~isFork /\ nonKingAttacked # {}
                    winThemes == IF isCheckAndWin THEN <<"check and win">> ELSE <<>>
                    winPieces ==
                        IF isCheckAndWin
                        THEN {pieceName((CHOOSE a \in nonKingAttacked : TRUE).type)}
                        ELSE {}
                    tactical == captureThemes \o forkThemes \o winThemes
                    checkThemes == IF givesCheck /\ tactical = <<>> THEN <<"check">> ELSE <<>>
                    promotionThemes == IF promotion # "" THEN <<"promotion">> ELSE <<>>
                    found == tactical \o checkThemes \o promotionThemes
                    themes == IF found = <<>> THEN <<"positional">> ELSE found
                IN  [theme |-> themes[1],
                     pieces |-> {movingPieceName} \cup capturePieces \cup forkPieces
                                   \cup winPieces]

(***************************************************************************)
(* SpecTactics: detectTactics as a pure function, applied to positions and *)
(* best moves drawn from a catalogue.                                      *)
(***************************************************************************)
\* rnbqkbnr/pppp1ppp/8/4p3/6P1/5P2/PPPPP2P/RNBQKBNR b KQkq - 0 2
FoolsMate ==
    Chess(<<<<"r", "n", "b", "q", "k", "b", "n", "r">>, <<"p", "p", "p", "p", "1", "p", "p", "p">>,
            <<"8">>, <<"4", "p", "3">>, <<"6", "P", "1">>, <<"5", "P", "2">>,
            <<"P", "P", "P", "P", "P", "2", "P">>, <<"R", "N", "B", "Q", "K", "B", "N", "R">>>>,
          "b")
\* r3k2r/ppp2ppp/3p4/1N6/8/8/PPP2PPP/R3K2R w KQkq - 0 1
KnightFork ==
    Chess(<<<<"r", "3", "k", "2", "r">>, <<"p", "p", "p", "2", "p", "p", "p">>,
            <<"3", "p", "4">>, <<"1", "N", "6">>, <<"8">>, <<"8">>,
            <<"P", "P", "P", "2", "P", "P", "P">>, <<"R", "3", "K", "2", "R">>>>,
          "w")
\* rnbqkbnr/ppp1pppp/8/3p4/4P3/8/PPPP1PPP/RNBQKBNR w KQkq - 0 2
CentreExchange ==
    Chess(<<<<"r", "n", "b", "q", "k", "b", "n", "r">>, <<"p", "p", "p", "1", "p", "p", "p", "p">>,
            <<"8">>, <<"3", "p", "4">>, <<"4", "P", "3">>, <<"8">>,
            <<"P", "P", "P", "P", "1", "P", "P", "P">>, <<"R", "N", "B", "Q", "K", "B", "N", "R">>>>,
          "w")
\* r1bqkb1r/pppp1ppp/2n2n2/4p2Q/2B1P3/8/PPPP1PPP/RNB1K1NR w KQkq - 4 4
ScholarsMate ==
    Chess(<<<<"r", "1", "b", "q", "k", "b", "1", "r">>, <<"p", "p", "p", "p", "1", "p", "p", "p">>,
            <<"2", "n", "2", "n", "2">>, <<"4", "p", "2", "Q">>, <<"2", "B", "1", "P", "3">>,
            <<"8">>, <<"P", "P", "P", "P", "1", "P", "P", "P">>,
            <<"R", "N", "B", "1", "K", "1", "N", "R">>>>,
          "w")
\* 3r2k1/P4ppp/8/8/3b4/2N5/5PPP/3R2K1 w - - 0 1
RookEnding ==
    Chess(<<<<"3", "r", "2", "k", "1">>, <<"P", "4", "p", "p", "p">>, <<"8">>, <<"8">>,
            <<"3", "b", "4">>, <<"2", "N", "5">>, <<"5", "P", "P", "P">>,
            <<"3", "R", "2", "K", "1">>>>,
          "w")

\* r3k3/8/8/1N6/8/8/8/4K3 w - - 0 1
QuietFork ==
    Chess(<<<<"r", "3", "k", "3">>, <<"8">>, <<"8">>, <<"1", "N", "6">>, <<"8">>, <<"8">>,
            <<"8">>, <<"4", "K", "3">>>>,
          "w")

TacticsPositions ==
    {FoolsMate, KnightFork, CentreExchange, ScholarsMate, RookEnding, QuietFork}

\* The best moves tried on a position: the empty move, and every move of a
\* piece along its lines, legal or not, with each promotion letter where a
\* pawn reaches the last rank.
BestMovesTried(game) ==
    {EmptyUci}
    \cup {Uci(s, t, pr) :
            <<s, t, pr>> \in
                {x \in Squares \X Squares \X ({""} \cup Promotions) :
                    /\ game.board[x[1]] # Empty
                    /\ x[2] \in Attacks(game.board, x[1])
                                \cup (IF TypeOf(game.board[x[1]]) = "p"
                                      THEN PawnPushes(game.board, x[1]) ELSE {})
                    /\ x[3] # "" => (TypeOf(game.board[x[1]]) = "p"
                                     /\ RankOf(x[2]) = LastRank(ColorOf(game.board[x[1]])))}}

NoAnalysis == [theme |-> NoLabel, pieces |-> {}]

InitTactics ==
    /\ games = <<>>
    /\ options = DefaultOptions
    /\ pc = "tactics"
    /\ gi = 0
    /\ mi = 0
    /\ evalCache = {}
    /\ eb = NoEval
    /\ criticalPositions = <<>>
    /\ bestMovesFound = <<>>
    /\ blunders = 0
    /\ mistakes = 0
    /\ progress = <<>>
    /\ streamed = <<>>
    /\ lastPly = NoPly
    /\ worker = "null"
    /\ terminated = 0
    /\ ready = FALSE
    /\ listeners = <<>>
    /\ timers = {}
    /\ promises = <<>>
    /\ inbox = <<>>
    /\ outbox = <<>>
    /\ engine = IdleEngine
    /\ posted = <<>>
    /\ lastDelivered = NoLine
    /\ \E game \in TacticsPositions : \E uci \in BestMovesTried(game) :
           sample = [game |-> game, bestMove |-> uci]
    /\ verdict = NoAnalysis
    /\ puzzleBoard = NoBoard
    /\ useStockfish = NoHook

\* const tactics = detectTactics(move.fenBefore, eb.bestMove, ...)
DetectTactics ==
    /\ pc = "tactics"
    /\ verdict = NoAnalysis
    /\ verdict' = detectTactics(sample.game, sample.bestMove)
    /\ UNCHANGED <<puzzleBoard, useStockfish, sample, games, options, runVars, sessionVars, engineVars, posted,
                   lastDelivered>>

NextTactics == DetectTactics

SpecTactics == InitTactics /\ [][NextTactics]_vars

\* MistakeGate, were the comparison strict.
MistakeGateStrict(delta, threshold) == delta > threshold

\* The first branch of the gate: `delta >= evalThreshold`.
MistakeGate(delta, threshold) == delta >= threshold

\* ReinforcementGate, were the comparison of the moves left out.
ReinforcementGateAnyMove(delta, best, uci, evalBefore) ==
    /\ delta <= ReinforceDelta
    /\ Abs(evalBefore) > NonTrivialEval

\* The condition of the `else if`.
ReinforcementGate(delta, best, uci, evalBefore) ==
    /\ delta <= ReinforceDelta
    /\ best = uci
    /\ Abs(evalBefore) > NonTrivialEval

\* ReinforcementBranch, were the second test an `if` of its own.
ReinforcementBranchNoElse(delta, threshold, best, uci, evalBefore) ==
    ReinforcementGate(delta, best, uci, evalBefore)

\* Whether the second branch is taken: it is an `else if` of the first.
ReinforcementBranch(delta, threshold, best, uci, evalBefore) ==
    /\ ~MistakeGate(delta, threshold)
    /\ ReinforcementGate(delta, best, uci, evalBefore)

(***************************************************************************)
(* analyzeGames.                                                           *)
(***************************************************************************)
CurGame == games[gi + 1]
\* playedAs, were the usernames compared as they are written.
playedAsCaseSensitive(g) == IF g.white = g.username THEN "white" ELSE "black"

playedAs(g) == IF ToLower(g.white) = ToLower(g.username) THEN "white" ELSE "black"
opponent(g) == IF playedAs(g) = "white" THEN g.black ELSE g.white
startIdx == options.skipOpeningMoves * 2
CurMove == ParsedMove(CurGame, mi)

\* evalCache.get(fen), as the set of entries found (none or one).
CacheGet(cache, fen) == {e \in cache : e.fen = fen}
\* evalCache.set(fen, result).
CacheSet(cache, result) == {e \in cache : e.fen # result.fen} \cup {result}

\* Decided, were the cached evaluation not consulted.
DecidedNever(cache, fen) == FALSE

\* `cached && Math.abs(cached.evaluation) > 7`
Decided(cache, fen) == \E e \in CacheGet(cache, fen) : Abs(e.evaluation) > DecidedLimit

\* The id of the next analyzePosition call and of the one awaited.
NextCallId == Len(posted) + 1
AwaitedId == Len(posted)

\* The CriticalPosition built for the current ply; gi, mi, whiteBefore and
\* whiteAfter are history fields: the ply it was built from and the two
\* evaluations as White would state them.
Critical(g, move, before, after, delta, difficulty) ==
    [fen |-> move.fenBefore, bestMove |-> before.bestMove, playerMove |-> move.uci,
     evalBefore |-> before.evaluation, evalAfter |-> after.evaluation, evalDelta |-> delta,
     moveNumber |-> move.moveNumber, side |-> move.side, clockTime |-> move.clockAfter,
     difficulty |-> difficulty, opponent |-> opponent(g),
     date |-> formatPgnDate(g.date), playedAs |-> playedAs(g),
     gi |-> gi, mi |-> mi, whiteBefore |-> before.whiteEval, whiteAfter |-> after.whiteEval]

\* IsBlunder, were every flagged ply counted as a blunder.
IsBlunderAtThreshold(delta) == delta >= options.evalThreshold

\* `if (delta >= 2.0) blunders++ else mistakes++`
IsBlunder(delta) == delta >= BlunderDelta

\* Lines 312-376: the delta, the two gates, the lists and the counters; then
\* the ply loop moves on.
Classify(before, after) ==
    LET g == CurGame
        move == CurMove
        delta == evalDeltaForSide(before.evaluation, after.evaluation, move.side)
        isMistake == MistakeGate(delta, options.evalThreshold)
        isBest == ReinforcementBranch(delta, options.evalThreshold, before.bestMove,
                                      move.uci, before.evaluation)
    IN  /\ criticalPositions' =
              IF isMistake
              THEN Append(criticalPositions,
                          Critical(g, move, before, after, delta,
                                   classifyDifficulty(delta, move.clockAfter)))
              ELSE criticalPositions
        /\ blunders' = IF isMistake /\ IsBlunder(delta) THEN blunders + 1 ELSE blunders
        /\ mistakes' = IF isMistake /\ ~IsBlunder(delta) THEN mistakes + 1 ELSE mistakes
        /\ bestMovesFound' =
              IF isBest
              THEN Append(bestMovesFound, Critical(g, move, before, after, delta, "hard"))
              ELSE bestMovesFound
        /\ lastPly' = [gi |-> gi, mi |-> mi, side |-> move.side,
                       evalBefore |-> before.evaluation, evalAfter |-> after.evaluation,
                       evalDelta |-> delta,
                       verdict |-> IF isMistake THEN "mistake"
                                   ELSE IF isBest THEN "reinforcement" ELSE "none"]
        /\ mi' = mi + 1
        /\ pc' = "plyLoop"
        /\ eb' = NoEval

\* `const ea = await analyzeOrCache(move.fen)` and what follows it, with the
\* before-evaluation in hand and the cache as it stands; `kept` as in analyzePosition.
AfterPosition(before, cache, kept) ==
    /\ evalCache' = cache
    /\ IF CacheGet(cache, CurMove.fen) = {}
       THEN /\ Len(posted) < MaxCalls
            /\ analyzePosition(NextCallId, CurMove.fen, kept)
            /\ pc' = "awaitAfter"
            /\ eb' = before
            /\ UNCHANGED <<mi, criticalPositions, bestMovesFound, blunders, mistakes, lastPly>>
       ELSE /\ Classify(before, CHOOSE e \in CacheGet(cache, CurMove.fen) : TRUE)
            /\ promises' = kept
            /\ UNCHANGED <<listeners, timers, inbox, posted>>

Without(ps, id) == [i \in DOMAIN ps \ {id} |-> ps[i]]

InitRun ==
    /\ games \in GameLists
    /\ options \in [evalThreshold : EvalThresholds, skipOpeningMoves : SkipOpeningChoices,
                     onProgress : {TRUE}, onPuzzleFound : {TRUE}]
    /\ pc = "idle"
    /\ gi = 0
    /\ mi = 0
    /\ evalCache = {}
    /\ eb = NoEval
    /\ criticalPositions = <<>>
    /\ bestMovesFound = <<>>
    /\ blunders = 0
    /\ mistakes = 0
    /\ progress = <<>>
    /\ streamed = <<>>
    /\ lastPly = NoPly
    /\ worker = "null"
    /\ terminated = 0
    /\ ready = FALSE
    /\ listeners = <<>>
    /\ timers = {}
    /\ promises = <<>>
    /\ inbox = <<>>
    /\ outbox = <<>>
    /\ engine = IdleEngine
    /\ posted = <<>>
    /\ lastDelivered = NoLine
    /\ sample = NoSample
    /\ verdict = NoVerdict
    /\ puzzleBoard = NoBoard
    /\ useStockfish = NoHook

\* analyzeGames given one hand-built game whose positions recur.
InitRepeating ==
    /\ games \in [1..1 -> RepeatingGames]
    /\ options \in [evalThreshold : EvalThresholds, skipOpeningMoves : SkipOpeningChoices,
                     onProgress : {TRUE}, onPuzzleFound : {TRUE}]
    /\ pc = "idle"
    /\ gi = 0
    /\ mi = 0
    /\ evalCache = {}
    /\ eb = NoEval
    /\ criticalPositions = <<>>
    /\ bestMovesFound = <<>>
    /\ blunders = 0
    /\ mistakes = 0
    /\ progress = <<>>
    /\ streamed = <<>>
    /\ lastPly = NoPly
    /\ worker = "null"
    /\ terminated = 0
    /\ ready = FALSE
    /\ listeners = <<>>
    /\ timers = {}
    /\ promises = <<>>
    /\ inbox = <<>>
    /\ outbox = <<>>
    /\ engine = IdleEngine
    /\ posted = <<>>
    /\ lastDelivered = NoLine
    /\ sample = NoSample
    /\ verdict = NoVerdict
    /\ puzzleBoard = NoBoard
    /\ useStockfish = NoHook

\* analyzeGames is called: `new StockfishManager()`, `await stockfish.initialize()`.
StartRun ==
    /\ pc = "idle"
    /\ initialize
    /\ pc' = "initializing"
    /\ UNCHANGED <<puzzleBoard, useStockfish, sample, verdict, games, options, gi, mi, evalCache, eb, criticalPositions, bestMovesFound,
                   blunders, mistakes, progress, streamed, lastPly, terminated, ready,
                   posted, lastDelivered>>

\* initialize() resolved: the result lists and counters are created, the try block entered.
InitResolved ==
    /\ pc = "initializing"
    /\ promises[InitId].status = "resolved"
    /\ pc' = "gameLoop"
    /\ gi' = 0
    /\ UNCHANGED <<puzzleBoard, useStockfish, sample, verdict, games, options, mi, evalCache, eb, criticalPositions, bestMovesFound,
                   blunders, mistakes, progress, streamed, lastPly, sessionVars, engineVars,
                   posted, lastDelivered>>

\* OnRejection, were a failed engine call to end the game only (the ply loop
\* left, the game loop going on).
OnRejectionSkipGame(where) == IF where = "initializing" THEN "failed" ELSE "gameLoop"

\* Where analyzeGames stands after an awaited promise rejected: nothing
\* catches the error, so the call has failed.
OnRejection(where) == "failed"

\* initialize() rejected: the await throws before the try block, so the
\* finally clause does not run.
InitRejected ==
    /\ pc = "initializing"
    /\ promises[InitId].status = "rejected"
    /\ pc' = OnRejection(pc)
    /\ UNCHANGED <<puzzleBoard, useStockfish, sample, verdict, games, options, gi, mi, evalCache, eb, criticalPositions, bestMovesFound,
                   blunders, mistakes, progress, streamed, lastPly, sessionVars, engineVars,
                   posted, lastDelivered>>

\* The head of the game loop body: a new evalCache, the ply loop from startIdx.
BeginGame ==
    /\ pc = "gameLoop"
    /\ gi < Len(games)
    /\ evalCache' = {}
    /\ mi' = startIdx
    /\ pc' = "plyLoop"
    /\ UNCHANGED <<puzzleBoard, useStockfish, sample, verdict, games, options, gi, eb, criticalPositions, bestMovesFound, blunders,
                   mistakes, progress, streamed, lastPly, sessionVars, engineVars, posted,
                   lastDelivered>>

\* A ply the loop passes over: the other side's, or one whose before-position
\* is cached as decided.
SkipPly ==
    /\ pc = "plyLoop"
    /\ mi < CurGame.n
    /\ IF CurMove.side # playedAs(CurGame) THEN TRUE
       ELSE Decided(evalCache, CurMove.fenBefore)
    /\ mi' = mi + 1
    /\ UNCHANGED <<puzzleBoard, useStockfish, sample, verdict, games, options, pc, gi, evalCache, eb, criticalPositions, bestMovesFound,
                   blunders, mistakes, progress, streamed, lastPly, sessionVars, engineVars,
                   posted, lastDelivered>>

\* ProgressEvent, were the game counted from 1 as in the status string.
ProgressEventFromOne ==
    [gameIndex |-> gi + 1, totalGames |-> Len(games), positionIndex |-> mi,
     totalPositions |-> CurGame.n]

\* The argument of onProgress (the status string left out).
ProgressEvent ==
    [gameIndex |-> gi, totalGames |-> Len(games), positionIndex |-> mi,
     totalPositions |-> CurGame.n]

\* A candidate ply: the progress event, then `await analyzeOrCache(move.fenBefore)`.
BeginPly ==
    /\ pc = "plyLoop"
    /\ mi < CurGame.n
    /\ CurMove.side = playedAs(CurGame)
    /\ ~Decided(evalCache, CurMove.fenBefore)
    /\ progress' = IF options.onProgress THEN Append(progress, ProgressEvent) ELSE progress
    /\ IF CacheGet(evalCache, CurMove.fenBefore) = {}
       THEN /\ Len(posted) < MaxCalls
            /\ analyzePosition(NextCallId, CurMove.fenBefore, promises)
            /\ pc' = "awaitBefore"
            /\ UNCHANGED <<mi, evalCache, eb, criticalPositions, bestMovesFound, blunders,
                           mistakes, lastPly>>
       ELSE AfterPosition(CHOOSE e \in CacheGet(evalCache, CurMove.fenBefore) : TRUE,
                          evalCache, promises)
    /\ UNCHANGED <<puzzleBoard, useStockfish, sample, verdict, games, options, gi, streamed, worker, terminated, ready, outbox, engine,
                   lastDelivered>>

\* The first await resumes: the result is cached, the second call is made.
BeforeResolved ==
    /\ pc = "awaitBefore"
    /\ promises[AwaitedId].status = "resolved"
    /\ AfterPosition(promises[AwaitedId].value,
                     CacheSet(evalCache, promises[AwaitedId].value),
                     Without(promises, AwaitedId))
    /\ UNCHANGED <<puzzleBoard, useStockfish, sample, verdict, games, options, gi, progress, streamed, worker, terminated, ready, outbox,
                   engine, lastDelivered>>

\* The second await resumes: the result is cached and the ply classified.
AfterResolved ==
    /\ pc = "awaitAfter"
    /\ promises[AwaitedId].status = "resolved"
    /\ evalCache' = CacheSet(evalCache, promises[AwaitedId].value)
    /\ Classify(eb, promises[AwaitedId].value)
    /\ promises' = Without(promises, AwaitedId)
    /\ UNCHANGED <<puzzleBoard, useStockfish, sample, verdict, games, options, gi, progress, streamed, worker, terminated, ready,
                   listeners, timers, engineVars, posted, lastDelivered>>

\* An awaited analyzePosition rejected: the error leaves the try block through
\* `finally { stockfish.terminate() }` and analyzeGames rejects.
CallRejected ==
    /\ pc \in {"awaitBefore", "awaitAfter"}
    /\ promises[AwaitedId].status = "rejected"
    /\ terminate
    /\ pc' = OnRejection(pc)
    /\ UNCHANGED <<puzzleBoard, useStockfish, sample, verdict, games, options, gi, mi, evalCache, eb, criticalPositions, bestMovesFound,
                   blunders, mistakes, progress, streamed, lastPly, timers, promises, posted,
                   lastDelivered>>

\* The game's puzzles as the filter of line 381 selects them.
gameKey(g) == <<opponent(g), formatPgnDate(g.date), playedAs(g)>>
gamePuzzles(g) ==
    SelectSeq(criticalPositions, LAMBDA p : <<p.opponent, p.date, p.playedAs>> = gameKey(g))

\* `reduce((a, b) => (b.evalDelta > a.evalDelta ? b : a))`: the first of the maxima.
RECURSIVE bestOf(_)
bestOf(ps) ==
    IF Len(ps) = 1 THEN ps[1]
    ELSE LET a == bestOf(SubSeq(ps, 1, Len(ps) - 1))
             b == ps[Len(ps)]
         IN  IF b.evalDelta > a.evalDelta THEN b ELSE a

\* StreamedAtEnd, were every puzzle of the game handed to the callback.
StreamedAll(g) == IF options.onPuzzleFound THEN gamePuzzles(g) ELSE <<>>

\* The calls of onPuzzleFound made after the ply loop of a game: none or one.
StreamedAtEnd(g) ==
    IF options.onPuzzleFound /\ Len(gamePuzzles(g)) > 0
    THEN <<bestOf(gamePuzzles(g))>>
    ELSE <<>>

\* The plies of the game are exhausted: the best puzzle is streamed and the
\* game loop moves on.
EndGame ==
    /\ pc = "plyLoop"
    /\ mi >= CurGame.n
    /\ streamed' = streamed \o StreamedAtEnd(CurGame)
    /\ gi' = gi + 1
    /\ pc' = "gameLoop"
    /\ UNCHANGED <<puzzleBoard, useStockfish, sample, verdict, games, options, mi, evalCache, eb, criticalPositions, bestMovesFound,
                   blunders, mistakes, progress, lastPly, sessionVars, engineVars, posted,
                   lastDelivered>>

\* The game loop ends: `finally { stockfish.terminate() }`, the result is returned.
Finish ==
    /\ pc = "gameLoop"
    /\ gi >= Len(games)
    /\ terminate
    /\ pc' = "done"
    /\ UNCHANGED <<puzzleBoard, useStockfish, sample, verdict, games, options, gi, mi, evalCache, eb, criticalPositions, bestMovesFound,
                   blunders, mistakes, progress, streamed, lastPly, timers, promises, posted,
                   lastDelivered>>

Next ==
    \/ StartRun
    \/ InitResolved
    \/ InitRejected
    \/ BeginGame
    \/ SkipPly
    \/ BeginPly
    \/ BeforeResolved
    \/ AfterResolved
    \/ CallRejected
    \/ EndGame
    \/ Finish
    \/ EngineRecv
    \/ EngineInfo
    \/ EngineBestmove
    \/ Deliver
    \/ \E id \in timers : TimerFires(id)

Spec == InitRun /\ [][Next]_vars

\* The same run on a hand-built game whose positions recur.
SpecRepeating == InitRepeating /\ [][Next]_vars

(***************************************************************************)
(* PuzzleBoard (src/src/components/PuzzleBoard.tsx): the component's state *)
(* under the user's move attempts, the 'Show answer' button, the retry     *)
(* timers and the change of the puzzle prop.  The highlight, selection and *)
(* shake states colour squares only and are left out.                      *)
(***************************************************************************)
NumPuzzles == 2        \* puzzles the parent steps through
MaxAttempts == 3       \* accepted move attempts on one puzzle

NoTimer == 0
RETRY_DELAY == 900

\* new Chess(puzzle.fen): the puzzle's position, no move played on it.
PuzzlePosition(p) == [puzzle |-> p, played |-> <<>>]

\* isResolved
IsResolved(b) == b.status \in {"correct", "revealed"}

\* The moves a user can try on the position shown: a legal move whose
\* coordinates are puzzle.bestMove ("best"), any other legal move ("other"),
\* or one chess.js rejects ("illegal").  After one move on the puzzle's
\* position the other side is to move and the origin square of bestMove
\* holds none of its pieces, so no legal move spells bestMove there.
Attempts(b) ==
    IF Len(b.game.played) = 1 THEN {"other", "illegal"}
    ELSE {"best", "other", "illegal"}

\* The state after the first render for the puzzle p.
Mounted(p) ==
    [puzzle |-> p, game |-> PuzzlePosition(p), status |-> "idle", attemptCount |-> 0,
     retryTimerRef |-> NoTimer, armed |-> {}, timersSet |-> 0]

InitBoard ==
    /\ games = <<>>
    /\ options = DefaultOptions
    /\ pc = "board"
    /\ gi = 0
    /\ mi = 0
    /\ evalCache = {}
    /\ eb = NoEval
    /\ criticalPositions = <<>>
    /\ bestMovesFound = <<>>
    /\ blunders = 0
    /\ mistakes = 0
    /\ progress = <<>>
    /\ streamed = <<>>
    /\ lastPly = NoPly
    /\ worker = "null"
    /\ terminated = 0
    /\ ready = FALSE
    /\ listeners = <<>>
    /\ timers = {}
    /\ promises = <<>>
    /\ inbox = <<>>
    /\ outbox = <<>>
    /\ engine = IdleEngine
    /\ posted = <<>>
    /\ lastDelivered = NoLine
    /\ sample = NoSample
    /\ verdict = NoVerdict
    /\ puzzleBoard = Mounted(1)
    /\ useStockfish = NoHook

BoardUnchanged ==
    UNCHANGED <<useStockfish, sample, verdict, games, options, runVars, sessionVars,
                engineVars, posted, lastDelivered>>

\* setTimeout(() => {...}, 900) of an incorrect attempt, retryTimerRef not cleared first.
ArmRetry(b) ==
    LET id == b.timersSet + 1
    IN  [b EXCEPT !.retryTimerRef = id,
                  !.armed = @ \cup {[id |-> id, puzzle |-> b.puzzle, delay |-> RETRY_DELAY]},
                  !.timersSet = id]

\* attemptMove(from, to, promotion)
attemptMove(b, kind) ==
    IF IsResolved(b) \/ kind = "illegal" THEN b
    ELSE LET moved == [b EXCEPT !.attemptCount = @ + 1,
                                !.game.played = Append(@, kind)]
         IN  IF kind = "best" THEN [moved EXCEPT !.status = "correct"]
             ELSE ArmRetry([moved EXCEPT !.status = "incorrect"])

\* onPieceDrop / onSquareClick with a piece selected
AttemptMove ==
    /\ pc = "board"
    /\ puzzleBoard.attemptCount < MaxAttempts
    /\ \E kind \in Attempts(puzzleBoard) :
           puzzleBoard' = attemptMove(puzzleBoard, kind)
    /\ BoardUnchanged

\* handleReveal, from the 'Show answer' button rendered while !isResolved
HandleReveal ==
    /\ pc = "board"
    /\ ~IsResolved(puzzleBoard)
    /\ puzzleBoard' = [puzzleBoard EXCEPT !.status = "revealed"]
    /\ BoardUnchanged

\* The callback of a retry timer runs: it resets the board to the position of
\* the puzzle its closure holds.
RetryTimerFires ==
    /\ pc = "board"
    /\ \E t \in puzzleBoard.armed :
           puzzleBoard' = [puzzleBoard EXCEPT !.game = PuzzlePosition(t.puzzle),
                                              !.status = "idle",
                                              !.armed = @ \ {t}]
    /\ BoardUnchanged

\* onNext from the reveal panel: the parent passes the next puzzle and the
\* reset effect runs.
PuzzleChanges ==
    /\ pc = "board"
    /\ IsResolved(puzzleBoard)
    /\ puzzleBoard.puzzle < NumPuzzles
    /\ puzzleBoard' =
           [Mounted(puzzleBoard.puzzle + 1) EXCEPT
               !.retryTimerRef = puzzleBoard.retryTimerRef,
               !.armed = {t \in puzzleBoard.armed : t.id # puzzleBoard.retryTimerRef},
               !.timersSet = puzzleBoard.timersSet]
    /\ BoardUnchanged

NextBoard ==
    \/ AttemptMove
    \/ HandleReveal
    \/ RetryTimerFires
    \/ PuzzleChanges

SpecBoard == InitBoard /\ [][NextBoard]_vars

(***************************************************************************)
(* useStockfish (src/src/hooks/useStockfish.ts): the hook's state, the one *)
(* sf.listen callback of the engine module and the commands sent with      *)
(* sf.uci, over the engine above.  evaluation is held in hundredths of a   *)
(* pawn (the hook divides the centipawns by 100); the lines of the model   *)
(* carry no depth, so the depth state is left out, and so are the 30 s     *)
(* timeouts of the handshake, which this engine always answers.            *)
(***************************************************************************)
MaxHookCalls == 3      \* analyze() and stop() calls made on one hook

\* `mateMoves > 0 ? 999 : -999`, in hundredths of a pawn.
MateEval == 999 * 100

\* evaluation === null, and an evaluation
Null == <<>>
Some(n) == <<n>>

\* sf.listen: `() => {}`, the two waiters of initStockfish18, and the handler
\* analyze(fen) installs, which holds fen in its closure.
Idle == [kind |-> "idle", fen |-> NoFen]
Waiter(text) == [kind |-> text, fen |-> NoFen]
Handler(fen) == [kind |-> "analyze", fen |-> fen]

\* asked, scoreOf, moveOf and endOf are history fields: the position of the
\* analyze() call made last, and the searches whose lines supplied the
\* evaluation, the best move and the end of the analysis.
InitHook ==
    /\ games = <<>>
    /\ options = DefaultOptions
    /\ pc = "hook"
    /\ gi = 0
    /\ mi = 0
    /\ evalCache = {}
    /\ eb = NoEval
    /\ criticalPositions = <<>>
    /\ bestMovesFound = <<>>
    /\ blunders = 0
    /\ mistakes = 0
    /\ progress = <<>>
    /\ streamed = <<>>
    /\ lastPly = NoPly
    /\ worker = "alive"
    /\ terminated = 0
    /\ ready = FALSE
    /\ listeners = <<>>
    /\ timers = {}
    /\ promises = <<>>
    /\ inbox = <<Cmd("uci")>>
    /\ outbox = <<>>
    /\ engine = IdleEngine
    /\ posted = <<>>
    /\ lastDelivered = NoLine
    /\ sample = NoSample
    /\ verdict = NoVerdict
    /\ puzzleBoard = NoBoard
    /\ useStockfish = [isReady |-> FALSE, isAnalyzing |-> FALSE, evaluation |-> Null,
                       bestMove |-> NoMove, listen |-> Waiter("uciok"), calls |-> 0,
                       asked |-> NoFen, scoreOf |-> NoFen, moveOf |-> NoFen,
                       endOf |-> NoFen]

\* The evaluation the handler of analyze(fen) sets on a score-bearing info line.
HookEvaluation(fen, line) ==
    LET raw == IF line.kind = "cp" THEN line.n
               ELSE IF line.n > 0 THEN MateEval ELSE -MateEval
    IN  IF SideToMove(fen) = "b" THEN -raw ELSE raw

\* sf.listen = (line) => {...} of analyze(fen)
HookListen(h, line) ==
    IF line.type = "info"
    THEN [h EXCEPT !.evaluation = Some(HookEvaluation(h.listen.fen, line)),
                   !.scoreOf = line.fen]
    ELSE IF line.type = "bestmove"
    THEN [h EXCEPT !.bestMove = IF line.move = NoneMove THEN @ ELSE line.move,
                   !.moveOf = IF line.move = NoneMove THEN @ ELSE line.fen,
                   !.listen = Idle,
                   !.isAnalyzing = FALSE,
                   !.endOf = line.fen]
    ELSE h

HookUnchanged ==
    UNCHANGED <<puzzleBoard, sample, verdict, games, options, runVars, sessionVars, posted>>

\* The engine module hands its next line to sf.listen.
Listen ==
    /\ pc = "hook"
    /\ outbox # <<>>
    /\ LET line == Head(outbox)
           h == useStockfish
       IN  /\ outbox' = Tail(outbox)
           /\ lastDelivered' = line
           /\ CASE h.listen.kind = "uciok" /\ line.type = "uciok" ->
                     \* phase 1 resolves; phase 3 configures and sends isready
                     /\ useStockfish' = [h EXCEPT !.listen = Waiter("readyok")]
                     /\ inbox' = inbox \o <<Cmd("setoption"), Cmd("setoption"),
                                            Cmd("isready")>>
                [] h.listen.kind = "readyok" /\ line.type = "readyok" ->
                     \* initStockfish18 resolves: sf.listen = () => {}; setIsReady(true)
                     /\ useStockfish' = [h EXCEPT !.listen = Idle, !.isReady = TRUE]
                     /\ inbox' = inbox
                [] h.listen.kind = "analyze" ->
                     /\ useStockfish' = HookListen(h, line)
                     /\ inbox' = inbox
                [] OTHER ->
                     /\ useStockfish' = h
                     /\ inbox' = inbox
    /\ engine' = engine
    /\ HookUnchanged

\* analyze(fen, maxDepth)
Analyze ==
    /\ pc = "hook"
    /\ useStockfish.isReady
    /\ useStockfish.calls < MaxHookCalls
    /\ \E fen \in SessionFens :
          /\ useStockfish' = [useStockfish EXCEPT
                                 !.evaluation = Null, !.bestMove = NoMove,
                                 !.isAnalyzing = TRUE, !.listen = Handler(fen),
                                 !.calls = @ + 1, !.asked = fen,
                                 !.scoreOf = NoFen, !.moveOf = NoFen, !.endOf = NoFen]
          /\ inbox' = inbox \o <<Cmd("stop"), Cmd("ucinewgame"), PositionCmd(fen),
                                 Cmd("go")>>
    /\ UNCHANGED <<outbox, engine, lastDelivered>>
    /\ HookUnchanged

\* stop()
Stop ==
    /\ pc = "hook"
    /\ useStockfish.isReady
    /\ useStockfish.calls < MaxHookCalls
    /\ useStockfish' = [useStockfish EXCEPT !.listen = Idle, !.isAnalyzing = FALSE,
                                            !.calls = @ + 1]
    /\ inbox' = Append(inbox, Cmd("stop"))
    /\ UNCHANGED <<outbox, engine, lastDelivered>>
    /\ HookUnchanged

NextHook ==
    \/ Listen
    \/ Analyze
    \/ Stop
    \/ EngineRecv
    \/ EngineInfo
    \/ EngineBestmove

SpecHook == InitHook /\ [][NextHook]_vars

(***************************************************************************)
(* Properties.                                                             *)
(***************************************************************************)
Count(seq, Test(_)) == Len(SelectSeq(seq, Test))
IsGo(c) == c.cmd = "go"
IsBestmove(line) == line.type = "bestmove"
AnalyzeListeners == SelectSeq(listeners, LAMBDA h : h.kind = "analyze")

\* Searches submitted whose bestmove line has not been received: still to be
\* read by the engine, running, or ended with the line not yet delivered.
SearchesInFlight ==
    Count(inbox, IsGo) + (IF engine.searching THEN 1 ELSE 0) + Count(outbox, IsBestmove)

LastFour(seq) == SubSeq(seq, Len(seq) - 3, Len(seq))

\* C1: during an analyzeGames run at most one search is in flight, and a
\* position/go pair is posted only when no search is in flight and no other
\* analysis listener waits, directly after a stop (and ucinewgame).
C1_SingleFlight ==
    /\ [](SearchesInFlight <= 1 /\ Len(AnalyzeListeners) <= 1)
    /\ [][posted' # posted =>
            /\ SearchesInFlight = 0
            /\ AnalyzeListeners = <<>>
            /\ Len(inbox') >= 4
            /\ LastFour(inbox') = <<Cmd("stop"), Cmd("ucinewgame"),
                                    PositionCmd(posted'[Len(posted')]), Cmd("go")>>]_vars

\* A second search is running after the first one of the run ended.
C1_Witness == pc = "awaitAfter" /\ Len(posted) = 2 /\ engine.searching

\* C2: a call that resolves takes its score, its best move and its terminal
\* bestmove line from the search of its own position, also when it was made
\* while an earlier call was in flight.
C2_InterferenceFree ==
    \A id \in CallIds :
        promises[id].status = "resolved" =>
            /\ promises[id].value.endOf = promises[id].fen
            /\ promises[id].value.moveOf \in {promises[id].fen, NoFen}
            /\ promises[id].value.scoreOf \in {promises[id].fen, NoFen}

\* C3: a pending analyzePosition call has its timer armed; a call resolves
\* only on a bestmove line; a timer that fires on a pending call rejects it
\* with the timeout error; and a rejected call stays rejected with no
\* evaluation, whatever is delivered later.
C3_TimeoutRejects ==
    /\ [](\A id \in CallIds :
            /\ promises[id].status = "pending" => id \in timers
            /\ promises[id].status = "resolved" => promises[id].value.endOf # NoFen
            /\ promises[id].status = "rejected" => promises[id].value = NoEval)
    /\ [][\A id \in CallIds :
            /\ (promises[id].status = "pending" /\ id \notin timers'
                    /\ lastDelivered' = lastDelivered /\ outbox' = outbox)
                 => (promises'[id].status = "rejected"
                        /\ promises'[id].error = "Analysis timeout")
            /\ promises[id].status = "rejected" => promises'[id] = promises[id]]_vars

\* The only call made timed out, and the bestmove line of its search was
\* delivered afterwards.
C3_Witness ==
    /\ CallIds = {1}
    /\ promises[1].status = "rejected"
    /\ promises[1].error = "Analysis timeout"
    /\ lastDelivered.type = "bestmove"
    /\ lastDelivered.fen = promises[1].fen

\* C4: when an analyzeGames invocation has ended, by completion or by either
\* timeout, the worker created for it has been terminated.
C4_TerminatedAtEnd == pc \in {"done", "failed"} => (worker = "null" /\ terminated = 1)

\* C5: every evaluation in the cache, and every evalBefore and evalAfter of a
\* listed position, equals the engine's score as White would state it.
C5_WhitePerspective ==
    /\ \A e \in evalCache : e.evaluation = e.whiteEval
    /\ \A i \in DOMAIN criticalPositions :
          /\ criticalPositions[i].evalBefore = criticalPositions[i].whiteBefore
          /\ criticalPositions[i].evalAfter = criticalPositions[i].whiteAfter
    /\ \A i \in DOMAIN bestMovesFound :
          /\ bestMovesFound[i].evalBefore = bestMovesFound[i].whiteBefore
          /\ bestMovesFound[i].evalAfter = bestMovesFound[i].whiteAfter

\* C6: within one run no FEN is submitted to the engine twice.
C6_OneCallPerFen ==
    \A i, j \in DOMAIN posted : i # j => posted[i] # posted[j]

\* C7: no ply is in both result lists.
C7_Exclusive ==
    \A i \in DOMAIN criticalPositions, j \in DOMAIN bestMovesFound :
        ~(criticalPositions[i].gi = bestMovesFound[j].gi
            /\ criticalPositions[i].mi = bestMovesFound[j].mi)

\* A listed mistake that also meets the three reinforcement conditions.
C7_Witness ==
    \E i \in DOMAIN criticalPositions :
        LET p == criticalPositions[i]
        IN  ReinforcementGate(p.evalDelta, p.bestMove, p.playerMove, p.evalBefore)

\* The mover's own score: the evaluation, sign-flipped for Black.
MoverScore(evaluation, side) == IF side = "white" THEN evaluation ELSE -evaluation

\* C8: the delta of every classified ply is evalBefore - evalAfter for White
\* and evalAfter - evalBefore for Black, so it is positive exactly when the
\* mover's own score went down.
C8_DeltaSign ==
    lastPly # NoPly =>
        /\ lastPly.side = "white" => lastPly.evalDelta = lastPly.evalBefore - lastPly.evalAfter
        /\ lastPly.side = "black" => lastPly.evalDelta = lastPly.evalAfter - lastPly.evalBefore
        /\ lastPly.evalDelta > 0
             <=> MoverScore(lastPly.evalAfter, lastPly.side)
                    < MoverScore(lastPly.evalBefore, lastPly.side)

\* A Black ply with a positive delta.
C8_Witness == lastPly.side = "black" /\ lastPly.evalDelta > 0

InList(list, g, m) == \E i \in DOMAIN list : list[i].gi = g /\ list[i].mi = m

\* C9: every listed mistake has evalDelta >= evalThreshold, and every
\* classified ply with evalDelta >= evalThreshold is listed.
C9_MistakeThreshold ==
    /\ \A i \in DOMAIN criticalPositions :
          criticalPositions[i].evalDelta >= options.evalThreshold
    /\ (lastPly # NoPly /\ lastPly.evalDelta >= options.evalThreshold)
          => InList(criticalPositions, lastPly.gi, lastPly.mi)

\* A finished run that listed one ply and left another, below the threshold, out.
C9_Witness ==
    /\ pc = "done"
    /\ Len(criticalPositions) = 1
    /\ lastPly # NoPly
    /\ lastPly.evalDelta < options.evalThreshold
    /\ ~InList(criticalPositions, lastPly.gi, lastPly.mi)

\* C10: every listed reinforcement has evalDelta <= -0.3, the player's move
\* equal to the engine's best move, and |evalBefore| > 0.5.
C10_Reinforcement ==
    \A i \in DOMAIN bestMovesFound :
        /\ bestMovesFound[i].evalDelta <= ReinforceDelta
        /\ bestMovesFound[i].playerMove = bestMovesFound[i].bestMove
        /\ Abs(bestMovesFound[i].evalBefore) > NonTrivialEval

\* A finished run with a listed reinforcement.
C10_Witness == pc = "done" /\ Len(bestMovesFound) >= 1

\* The moves chess.js accepts in a position: the moves the games play there
\* and the other move of the position; the empty string is none of them.
LegalMoves(fen) ==
    {LineUci(l, fen.ply) : l \in (IF fen = StartFen THEN Lines ELSE {fen.line})}
        \cup {OtherUci(fen)}

\* C11: the best move and the player's move of every position in either result
\* list are legal moves in its fen; a ply whose best move is empty or illegal
\* is in neither list.
C11_LegalMoves ==
    /\ \A i \in DOMAIN criticalPositions :
          /\ criticalPositions[i].bestMove \in LegalMoves(criticalPositions[i].fen)
          /\ criticalPositions[i].playerMove \in LegalMoves(criticalPositions[i].fen)
    /\ \A i \in DOMAIN bestMovesFound :
          /\ bestMovesFound[i].bestMove \in LegalMoves(bestMovesFound[i].fen)
          /\ bestMovesFound[i].playerMove \in LegalMoves(bestMovesFound[i].fen)

\* The current ply is a candidate whose before-position the cache holds with
\* an evaluation beyond 7 pawns.
CachedDecided ==
    /\ pc = "plyLoop"
    /\ mi < CurGame.n
    /\ mi >= options.skipOpeningMoves * 2
    /\ CurMove.side = playedAs(CurGame)
    /\ \E e \in evalCache :
          e.fen = CurMove.fenBefore /\ (e.evaluation > 700 \/ e.evaluation < -700)

\* C12: at a candidate ply whose before-position is cached as decided, no
\* engine call is made, neither result list grows, and the ply loop moves to
\* the next ply.
C12_DecidedSkip ==
    [][CachedDecided =>
          /\ posted' = posted
          /\ criticalPositions' = criticalPositions
          /\ bestMovesFound' = bestMovesFound
          /\ lastPly' = lastPly
          /\ (pc' # pc \/ mi' # mi) => (pc' = "plyLoop" /\ mi' = mi + 1)]_vars

\* Ply 2 was passed over: its before-position was cached as decided by the
\* evaluation made for ply 0, and only the two calls of ply 0 were made.
C12_Witness ==
    /\ pc = "plyLoop"
    /\ gi = 0
    /\ mi = 3
    /\ playedAs(games[1]) = "white"
    /\ \E e \in evalCache : e.fen = ParsedMove(games[1], 2).fenBefore /\ e.evaluation > 700
    /\ Len(posted) = 2
    /\ lastPly.mi = 0

\* Whether two usernames are equal but for the case of their letters.
SameName(a, b) == a = b \/ {a, b} = {"magnus", "Magnus"}
\* The side of the subject: White iff the subject's name is the White player's.
SubjectSide(g) == IF SameName(g.white, g.username) THEN "white" ELSE "black"
\* Ply m of game number k (from 0) is a candidate: at or past the opening skip
\* and played by the subject.
IsCandidate(k, m) ==
    /\ m >= options.skipOpeningMoves * 2
    /\ m < games[k + 1].n
    /\ (IF m % 2 = 0 THEN "white" ELSE "black") = SubjectSide(games[k + 1])

\* C13: every position in either result list, every classified ply and every
\* engine call belongs to a candidate ply: index >= skipOpeningMoves * 2 and
\* played by the side the subject has, White iff the subject's username is the
\* White username but for case.
C13_CandidatesOnly ==
    /\ [](/\ \A i \in DOMAIN criticalPositions :
                /\ IsCandidate(criticalPositions[i].gi, criticalPositions[i].mi)
                /\ criticalPositions[i].side = SubjectSide(games[criticalPositions[i].gi + 1])
          /\ \A i \in DOMAIN bestMovesFound :
                /\ IsCandidate(bestMovesFound[i].gi, bestMovesFound[i].mi)
                /\ bestMovesFound[i].side = SubjectSide(games[bestMovesFound[i].gi + 1])
          /\ lastPly # NoPly => IsCandidate(lastPly.gi, lastPly.mi))
    /\ [][posted' # posted =>
            /\ IsCandidate(gi, mi)
            /\ posted'[Len(posted')] \in {ParsedMove(games[gi + 1], mi).fenBefore,
                                          ParsedMove(games[gi + 1], mi).fen}]_vars

\* With an opening skip of one move, a listed ply of White at index 2 of a
\* game whose White username differs from the subject's username in case only.
C13_Witness ==
    /\ options.skipOpeningMoves = 1
    /\ \E i \in DOMAIN criticalPositions :
          /\ criticalPositions[i].mi = 2
          /\ criticalPositions[i].side = "white"
          /\ games[criticalPositions[i].gi + 1].white # games[criticalPositions[i].gi + 1].username

\* The mistakes listed for the plies of game number k (from 0).
MistakesOfGame(k) == SelectSeq(criticalPositions, LAMBDA p : p.gi = k)

\* C14: when a game's plies are exhausted, the position handed to
\* onPuzzleFound is a mistake of that game with the largest evalDelta among
\* that game's mistakes, and one is handed over when the game has a mistake.
C14_StreamsGameMaximum ==
    [][/\ streamed' # streamed =>
            LET best == streamed'[Len(streamed')]
            IN  /\ best.gi = gi
                /\ \A i \in DOMAIN criticalPositions :
                      criticalPositions[i].gi = gi =>
                          criticalPositions[i].evalDelta <= best.evalDelta
       /\ (gi' = gi + 1 /\ MistakesOfGame(gi) # <<>>) => streamed' # streamed]_vars

\* C15: onPuzzleFound is called at most once for each game, in the step that
\* ends the game (its plies exhausted, no engine call pending) and moves on to
\* the next game; the calls never outnumber the games gone through.
C15_OnePuzzlePerGame ==
    /\ [](Len(streamed) <= gi /\ gi <= Len(games))
    /\ [][streamed' # streamed =>
            /\ Len(streamed') = Len(streamed) + 1
            /\ SubSeq(streamed', 1, Len(streamed)) = streamed
            /\ pc = "plyLoop"
            /\ mi >= games[gi + 1].n
            /\ gi' = gi + 1
            /\ posted' = posted
            /\ listeners = <<>>]_vars

\* A finished run in which the first game had two mistakes and a puzzle was streamed.
C15_Witness ==
    /\ pc = "done"
    /\ Len(MistakesOfGame(0)) = 2
    /\ Len(streamed) >= 1

\* The promise analyzeGames awaits has rejected.
AwaitedRejected ==
    \/ pc = "initializing" /\ promises[InitId].status = "rejected"
    \/ pc \in {"awaitBefore", "awaitAfter"} /\ promises[Len(posted)].status = "rejected"

\* Nothing of the run's progress changes in the step.
RunStands ==
    UNCHANGED <<gi, mi, evalCache, criticalPositions, bestMovesFound, blunders, mistakes,
                progress, streamed, lastPly, posted>>

\* C16: once the engine call analyzeGames awaits has rejected, the run can only
\* fail; a failed run failed with the timeout error of that call, stays failed
\* (no result is returned), evaluates no further ply or game and makes no
\* further progress or puzzle callback.
C16_FailureEndsRun ==
    /\ [](pc = "failed" =>
            \/ /\ promises[InitId].status = "rejected"
               /\ promises[InitId].error = "Stockfish init timeout"
               /\ posted = <<>>
            \/ /\ posted # <<>>
               /\ promises[Len(posted)].status = "rejected"
               /\ promises[Len(posted)].error = "Analysis timeout")
    /\ [][AwaitedRejected => (pc' \in {pc, "failed"} /\ RunStands)]_vars
    /\ [][pc = "failed" => (pc' = "failed" /\ RunStands)]_vars

\* A run of two games failed on an analysis timeout in its first game, after
\* a progress event, with the second game never begun.
C16_Witness ==
    /\ pc = "failed"
    /\ Len(games) = 2
    /\ gi = 0
    /\ Len(progress) >= 1
    /\ posted # <<>>
    /\ promises[Len(posted)].error = "Analysis timeout"

\* The analyzePosition calls made in the step.
NewCalls == (DOMAIN promises') \ (DOMAIN promises \cup {InitId})

StatedScore(line) ==
    IF line.kind = "cp" THEN line.n ELSE IF line.n > 0 THEN 9900 ELSE -9900

\* C18: a call that resolves on the bestmove line of its search, having
\* received score-bearing info lines of that search, resolves with the score
\* of the last of them, a mate score saturated to +-99 pawns.
C18_LastScore ==
    \A id \in CallIds :
        LET v == promises[id].value
        IN  (promises[id].status = "resolved" /\ v.seen # <<>>) =>
                /\ v.endOf = promises[id].fen
                /\ \A i \in DOMAIN v.seen : v.seen[i].fen = promises[id].fen
                /\ v.evaluation = StatedScore(v.seen[Len(v.seen)])

\* A call resolved after two score lines of its search, a centipawn score
\* followed by a mate-in-2 against the side to move: the evaluation is -99 pawns.
C18_Witness ==
    \E id \in CallIds :
        LET v == promises[id].value
        IN  /\ promises[id].status = "resolved"
            /\ Len(v.seen) = 2
            /\ v.seen[1].kind = "cp" /\ v.seen[1].n = 150
            /\ v.seen[2].kind = "mate" /\ v.seen[2].n = -2
            /\ v.evaluation = -9900

\* C19: difficulty follows the ordered rules: a swing of 3 pawns or more is
\* 'easy' whatever the clock; below that, a swing of 2 pawns or more, or a
\* known clock under 10 s, is 'medium'; anything else is 'hard', so an
\* unknown clock alone never gives 'medium'.
C19_DifficultyRules ==
    LET d == sample.evalDelta
        lowClock == sample.clockTime # NoClock /\ sample.clockTime < 10
    IN  verdict.difficulty # NoLabel =>
            /\ d >= 300 => verdict.difficulty = "easy"
            /\ (d < 300 /\ (d >= 200 \/ lowClock)) => verdict.difficulty = "medium"
            /\ (d < 200 /\ ~lowClock) => verdict.difficulty = "hard"

\* A swing of exactly 3 pawns with 9 s on the clock is classified 'easy'.
C19_Witness ==
    /\ sample.evalDelta = 300
    /\ sample.clockTime = 9
    /\ verdict.difficulty = "easy"

\* The themes of the detector's checkmate, capture, fork, check and promotion rules.
SpecificThemes ==
    {"checkmate", "winning capture", "hanging piece", "capture", "fork", "check and win",
     "check", "promotion"}

C21_Counters ==
    /\ [](/\ blunders = Count(criticalPositions, LAMBDA p : p.evalDelta >= 200)
          /\ mistakes = Count(criticalPositions, LAMBDA p : p.evalDelta < 200)
          /\ blunders + mistakes = Len(criticalPositions))
    /\ [][bestMovesFound' # bestMovesFound =>
              (blunders' = blunders /\ mistakes' = mistakes)]_vars

\* A run has returned a result that holds a blunder and a lesser mistake.
C21_Witness ==
    /\ pc = "done"
    /\ blunders >= 1
    /\ mistakes >= 1
    /\ Len(criticalPositions) = blunders + mistakes

\* The progress events reported for ply m of game number k (from 0).
EventsOf(k, m) ==
    {i \in DOMAIN progress : progress[i].gameIndex = k /\ progress[i].positionIndex = m}

\* C22: a progress event is reported once for each candidate ply, after the
\* ply has been considered: the newest event is that of the ply classified
\* last.
C22_ProgressAfter ==
    progress # <<>> =>
        /\ lastPly.gi = progress[Len(progress)].gameIndex
        /\ lastPly.mi = progress[Len(progress)].positionIndex

\* C22 as amended: a progress event is reported exactly once for each
\* candidate ply the loop takes up, before the ply's positions are evaluated:
\* an event is added only at the head of the ply loop, for a candidate ply
\* not reported before, with the game index, the number of games, the ply
\* index and the number of plies; a ply is classified only with its event the
\* newest; a finished run has reported every candidate ply once.
C22_ProgressBefore ==
    /\ [][progress' # progress =>
              /\ pc = "plyLoop"
              /\ IsCandidate(gi, mi)
              /\ EventsOf(gi, mi) = {}
              /\ progress' = Append(progress, [gameIndex |-> gi, totalGames |-> Len(games),
                                               positionIndex |-> mi,
                                               totalPositions |-> games[gi + 1].n])
              /\ posted' = Append(posted, FenAt(games[gi + 1].line, mi))
              /\ lastPly' = lastPly]_vars
    /\ [][lastPly' # lastPly =>
              /\ progress' = progress
              /\ progress # <<>>
              /\ progress[Len(progress)].gameIndex = lastPly'.gi
              /\ progress[Len(progress)].positionIndex = lastPly'.mi]_vars
    /\ [](pc = "done" =>
              \A k \in 0..(Len(games) - 1) : \A m \in 0..(MaxPlies - 1) :
                  Cardinality(EventsOf(k, m)) = IF IsCandidate(k, m) THEN 1 ELSE 0)

\* A run has finished with the events of two candidate plies reported, the
\* second a ply that matched no gate.
C22_Witness ==
    /\ pc = "done"
    /\ Len(progress) = 2
    /\ lastPly.verdict = "none"

\* The best move tried can be replayed on the position tried.
Replayed ==
    /\ sample.bestMove.from \in Squares
    /\ sample.game.board[sample.bestMove.from] # Empty
    /\ CanMove(sample.game, sample.bestMove.from, sample.bestMove.to,
               sample.bestMove.promotion)
\* The position after the best move, and the piece that made it.
AfterBest ==
    AfterMove(sample.game, sample.bestMove.from, sample.bestMove.to,
              sample.bestMove.promotion)
Mover == sample.game.board[sample.bestMove.from]
Captured == sample.game.board[sample.bestMove.to]

\* C23: when replaying the best move gives checkmate, the theme is
\* 'checkmate' and the pieces are the mating piece and the king, whatever
\* else the move does (capture, fork, check, promotion).
C23_CheckmateFirst ==
    (verdict # NoAnalysis /\ Replayed /\ isCheckmate(AfterBest)) =>
        /\ verdict.theme = "checkmate"
        /\ verdict.pieces = {pieceName(TypeOf(Mover)), "king"}

\* The Fool's Mate position with best move d8h4 is classified 'checkmate'.
C23_Witness ==
    /\ sample.game = FoolsMate
    /\ sample.bestMove = Uci(SquareAt("d", 8), SquareAt("h", 4), "")
    /\ verdict.theme = "checkmate"

\* A piece of the opponent could capture on the best move's target square
\* once the best move has been made.
Recapturable ==
    \E s \in PiecesOf(AfterBest.board, AfterBest.turn) :
        sample.bestMove.to \in moves(AfterBest, s)

\* C24: a best move that does not mate and captures a piece worth no more
\* than the capturing piece has theme 'hanging piece' when the captured piece
\* is undefended and 'capture' when it is defended.
C24_HangingOrCapture ==
    (/\ verdict # NoAnalysis
     /\ Replayed
     /\ ~isCheckmate(AfterBest)
     /\ Captured # Empty
     /\ PIECE_VALUES[TypeOf(Captured)] <= PIECE_VALUES[TypeOf(Mover)]) =>
        verdict.theme = IF Recapturable THEN "capture" ELSE "hanging piece"

\* The opposing pieces worth 3 or more, and the opposing king, that the moved
\* piece attacks after the best move.
ForkTargets ==
    {t \in Attacks(AfterBest.board, sample.bestMove.to) :
        /\ AfterBest.board[t] # Empty
        /\ ColorOf(AfterBest.board[t]) = AfterBest.turn
        /\ (PIECE_VALUES[TypeOf(AfterBest.board[t])] >= 3 \/ TypeOf(AfterBest.board[t]) = "k")}

\* C25: a best move that does not mate and after which the moved piece
\* attacks two or more opposing pieces worth 3 or more, the king counted, has
\* theme 'fork', or 'check and win' when it gives check, and names the
\* attacked pieces among the pieces involved.
C25_Fork ==
    (/\ verdict # NoAnalysis
     /\ Replayed
     /\ ~isCheckmate(AfterBest)
     /\ Cardinality(ForkTargets) >= 2) =>
        /\ verdict.theme \in {"fork"} \cup (IF inCheck(AfterBest) THEN {"check and win"} ELSE {})
        /\ {pieceName(TypeOf(AfterBest.board[t])) : t \in ForkTargets} \subseteq verdict.pieces

\* C26: decoding an encoded move gives back its squares and promotion (none,
\* q, r, b or n), and encoding a decoded 4- or 5-character coordinate move
\* gives back the string.
C26_RoundTrip ==
    /\ verdict.kind = "move" =>
          /\ verdict.from = sample.from
          /\ verdict.to = sample.to
          /\ verdict.promotion = sample.promotion
    /\ verdict.kind = "text" => verdict.uci = sample.uci

\* The move e7-e8 with promotion to a knight has been encoded and decoded back.
C26_Witness ==
    /\ sample.kind = "move"
    /\ sample.from = <<"e", "7">>
    /\ sample.to = <<"e", "8">>
    /\ sample.promotion = "n"
    /\ verdict = [kind |-> "move", from |-> <<"e", "7">>, to |-> <<"e", "8">>,
                  promotion |-> "n"]

\* C27: a position handed to onPuzzleFound when a game finishes comes from a
\* ply of that game, and no position is handed over twice in a run.
C27_OwnGameOnce ==
    [][streamed' # streamed =>
          LET best == streamed'[Len(streamed')]
          IN  /\ best.gi = gi
              /\ \A i \in DOMAIN streamed : streamed[i] # best]_vars

C29_ResolvedStays ==
    [][(IsResolved(puzzleBoard) /\ puzzleBoard'.puzzle = puzzleBoard.puzzle)
          => /\ puzzleBoard'.status = puzzleBoard.status
             /\ puzzleBoard'.game = puzzleBoard.game
             /\ puzzleBoard'.attemptCount = puzzleBoard.attemptCount]_vars

\* C30: when an analysis has ended on a bestmove line (isAnalyzing is false
\* again and stop() did not end it), the line that ended it, the bestMove and
\* the evaluation shown all come from the search of the position analyze()
\* was called with last.
C30_OwnSearch ==
    (pc = "hook" /\ ~useStockfish.isAnalyzing /\ useStockfish.endOf # NoFen)
        => /\ useStockfish.endOf = useStockfish.asked
           /\ useStockfish.bestMove # NoMove => useStockfish.moveOf = useStockfish.asked
           /\ useStockfish.evaluation # Null => useStockfish.scoreOf = useStockfish.asked
====
